---- MODULE Spec2Model ----
(***************************************************************************)
(* Multi-Agent-RCA: the event log (tools/logger.py), its reader, the trace *)
(* reconstruction and the diff query of the dashboard                      *)
(* (ui/dashboard_server.py), with the unified diff of difflib it parses.   *)
(*                                                                         *)
(* Python dicts are records with a field "keys" holding the set of keys    *)
(* that are present; a field whose key is absent carries a default of its  *)
(* type.  None is the string "None" in string-valued positions and -1 in   *)
(* integer-valued positions (timestamps, durations, token counts and       *)
(* latencies of the program are never negative).  Timestamps are integers  *)
(* counting milliseconds.  Strings that the code slices are sequences of   *)
(* one-character strings.                                                  *)
(***************************************************************************)
EXTENDS Integers, Sequences, FiniteSets, TLC

VARIABLES
    file,               \* memory/message_history.json: "absent" or its text
    current_trace_id,   \* logger._current_trace_id
    current_span_id,    \* logger._current_span_id
    span_start_times,   \* logger._span_start_times: span id -> start instant
    now,                \* the wall clock read by datetime.now
    nextId,             \* number of ids generate_id has handed out
    pc,                 \* position of the writer inside _append_to_history
    entry,              \* _append_to_history: the entry being appended
    history,            \* _append_to_history: the list read from the file
    appended,           \* the entries passed to _append_to_history since the last reset
    seen,               \* get_traces: which text of the file the read met
    messages,           \* get_traces: the list read_json_file returned
    response,           \* get_traces: the response of the last trace query
    memory,             \* memory/shared_memory.json, as read_json_file returns it
    original_file,      \* what the path of the affected source file names
    fixed_file,         \* what the path of the fixed file names
    patch_response,     \* get_patch: the response of the last diff query
    reply,              \* the response of the last results, events, analysis or fixes query
    step                \* main: where the pipeline run stands, and the store its agent loaded

vars == <<file, current_trace_id, current_span_id, span_start_times, now,
          nextId, pc, entry, history, appended, seen, messages, response,
          memory, original_file, fixed_file, patch_response, reply, step>>

loggerVars == <<current_trace_id, current_span_id, span_start_times, now, nextId>>
writerVars == <<pc, entry, history, appended>>
readerVars == <<seen, messages, response>>
patchVars == <<memory, original_file, fixed_file, patch_response>>

(***************************************************************************)
(* Bounds of the model.                                                    *)
(***************************************************************************)
MaxLen == 3         \* longest event log handed to get_traces
MaxAppends == 3     \* entries the logger appends to one log
MaxTime == 2        \* latest clock value
MaxIds == 3         \* ids generate_id can hand out
MaxLines == 4       \* most lines of a text of plain lines
MaxMarkedLines == 2 \* most lines of a text with lines that begin "--" or "++"
MaxLineNo == 20     \* largest number a numeral of the model stands for

(***************************************************************************)
(* Python values.                                                          *)
(***************************************************************************)
None == "None"
NoneInt == -1

Truthy(s) == s # None /\ s # ""
TruthyInt(n) == n # NoneInt /\ n # 0

\* dict.get(key, default) on a record that lists its present keys
Get(d, k, default) == IF k \in d.keys THEN d[k] ELSE default

\* the "data" of an entry: a dict, with the value an absent key carries; type
\* is the Python type of the value that json.load gives for "data"
EmptyData ==
    [type |-> "dict", keys |-> {}, input_file |-> None, output |-> None,
     path |-> None, rca |-> None, response |-> <<>>, response_length |-> NoneInt]

\* "data" that is a JSON string, and "data" that is null
StrData == [EmptyData EXCEPT !.type = "str"]
NullData == [EmptyData EXCEPT !.type = "NoneType"]

NoTokens == [prompt |-> NoneInt, completion |-> NoneInt, total |-> NoneInt]

\* the fields a log entry can have, with the value an absent key carries
BlankEntry ==
    [keys |-> {}, timestamp |-> NoneInt, type |-> None, agent |-> None,
     event |-> None, tool |-> None, method |-> None, data |-> EmptyData,
     trace_id |-> None, span_id |-> None, duration_ms |-> NoneInt,
     model |-> None, tokens |-> NoTokens, latency_ms |-> NoneInt]

(***************************************************************************)
(* The entries the logger builds.                                          *)
(***************************************************************************)
\* log_tool_call: entry = {...}
ToolCallEntry(ts, tool_name, method, data, trace, span) ==
    [BlankEntry EXCEPT
        !.keys = {"timestamp", "type", "tool", "method", "data", "trace_id", "span_id"},
        !.timestamp = ts, !.type = "tool_call", !.tool = tool_name,
        !.method = method, !.data = data, !.trace_id = trace, !.span_id = span]

\* log_agent_message: entry = {...}, entry["duration_ms"] only when not None
AgentEventEntry(ts, agent_name, event, data, trace, span, duration_ms) ==
    [BlankEntry EXCEPT
        !.keys = {"timestamp", "type", "agent", "event", "data", "trace_id", "span_id"}
                    \cup (IF duration_ms # NoneInt THEN {"duration_ms"} ELSE {}),
        !.timestamp = ts, !.type = "agent_event", !.agent = agent_name,
        !.event = event, !.data = data, !.trace_id = trace, !.span_id = span,
        !.duration_ms = duration_ms]

\* log_llm_call: "total" of the tokens
TokenTotal(prompt_tokens, completion_tokens) ==
    IF TruthyInt(prompt_tokens) \/ TruthyInt(completion_tokens)
    THEN (IF TruthyInt(prompt_tokens) THEN prompt_tokens ELSE 0)
         + (IF TruthyInt(completion_tokens) THEN completion_tokens ELSE 0)
    ELSE NoneInt

\* log_llm_call: entry = {...}
LlmCallEntry(ts, agent_name, prompt_tokens, completion_tokens, model, latency_ms, trace, span) ==
    [BlankEntry EXCEPT
        !.keys = {"timestamp", "type", "agent", "model", "trace_id", "span_id",
                  "tokens", "latency_ms"},
        !.timestamp = ts, !.type = "llm_call", !.agent = agent_name,
        !.model = model, !.trace_id = trace, !.span_id = span,
        !.tokens = [prompt |-> prompt_tokens, completion |-> completion_tokens,
                    total |-> TokenTotal(prompt_tokens, completion_tokens)],
        !.latency_ms = latency_ms]

(***************************************************************************)
(* get_traces: one pass over the messages.  The loop state is the list of  *)
(* spans, the current span (its index in spans, 0 for None: the code keeps *)
(* a reference to the dict it appended last) and the trace id.             *)
(***************************************************************************)
PreviewLen == 200
Ellipsis == <<".", ".", ".">>

\* if msg.get("agent") or msg.get("type") == "agent_event"
IsAgentBranch(msg) ==
    Truthy(Get(msg, "agent", None)) \/ Get(msg, "type", None) = "agent_event"

\* elif msg.get("tool") or msg.get("type") == "tool_call"
IsToolBranch(msg) ==
    /\ ~IsAgentBranch(msg)
    /\ (Truthy(Get(msg, "tool", None)) \/ Get(msg, "type", None) = "tool_call")

\* elif msg.get("type") == "llm_call" and current_span (the type test)
IsLlmBranch(msg) ==
    /\ ~IsAgentBranch(msg)
    /\ ~IsToolBranch(msg)
    /\ Get(msg, "type", None) = "llm_call"

\* msg.get("data", {}).get("input_file") or msg.get("data", {})
SpanInput(msg) ==
    LET data == Get(msg, "data", EmptyData) IN
    IF Truthy(Get(data, "input_file", None))
    THEN [from |-> "input_file", data |-> data]
    ELSE [from |-> "data", data |-> data]

\* event == "start": the span dict
NewSpan(msg) ==
    [span_id |-> Get(msg, "span_id", ""),
     agent |-> Get(msg, "agent", "Unknown"),
     start_time |-> Get(msg, "timestamp", NoneInt),
     end_time |-> NoneInt,
     duration_ms |-> NoneInt,
     status |-> "running",
     children |-> <<>>,
     llm_calls |-> <<>>,
     input |-> SpanInput(msg),
     output |-> None]

\* OnStart with the new span put first: spans.insert(0, current_span)
OnStartAtFront(st, msg) ==
    [st EXCEPT !.spans = <<NewSpan(msg)>> \o @, !.current = 1]

\* OnStart with "end_time": 0 in the new span
OnStartEndTimeZero(st, msg) ==
    [st EXCEPT !.spans = Append(@, [NewSpan(msg) EXCEPT !.end_time = 0]),
               !.current = Len(st.spans) + 1]

\* OnStart that first ends the span still open, at the instant of the new
\* "start"
OnStartClosesOpenSpan(st, msg) ==
    LET closed ==
            IF st.current # 0 /\ st.spans[st.current].status = "running"
            THEN [st.spans EXCEPT ![st.current].status = "success",
                                  ![st.current].end_time = Get(msg, "timestamp", NoneInt)]
            ELSE st.spans
    IN [st EXCEPT !.spans = Append(closed, NewSpan(msg)), !.current = Len(st.spans) + 1]

\* event == "start": current_span = {...}; spans.append(current_span)
OnStart(st, msg) ==
    [st EXCEPT !.spans = Append(@, NewSpan(msg)), !.current = Len(st.spans) + 1]

\* OnComplete that also sets current_span = None
OnCompleteClearsCurrent(st, msg) ==
    [st EXCEPT
        !.spans[st.current].end_time = Get(msg, "timestamp", NoneInt),
        !.spans[st.current].duration_ms = Get(msg, "duration_ms", NoneInt),
        !.spans[st.current].status = "success",
        !.spans[st.current].output = Get(Get(msg, "data", EmptyData), "output", None),
        !.current = 0]

\* OnComplete that derives a missing duration_ms from the two timestamps
OnCompleteComputesDuration(st, msg) ==
    [st EXCEPT
        !.spans[st.current].end_time = Get(msg, "timestamp", NoneInt),
        !.spans[st.current].duration_ms =
            IF "duration_ms" \in msg.keys THEN msg.duration_ms
            ELSE Get(msg, "timestamp", NoneInt) - st.spans[st.current].start_time,
        !.spans[st.current].status = "success",
        !.spans[st.current].output = Get(Get(msg, "data", EmptyData), "output", None)]

\* OnComplete that leaves a span alone once it is no longer running
OnCompleteOnlyRunning(st, msg) ==
    IF st.spans[st.current].status # "running" THEN st
    ELSE [st EXCEPT
            !.spans[st.current].end_time = Get(msg, "timestamp", NoneInt),
            !.spans[st.current].duration_ms = Get(msg, "duration_ms", NoneInt),
            !.spans[st.current].status = "success",
            !.spans[st.current].output = Get(Get(msg, "data", EmptyData), "output", None)]

\* OnComplete without current_span["status"] = "success"
OnCompleteKeepsStatus(st, msg) ==
    [st EXCEPT
        !.spans[st.current].end_time = Get(msg, "timestamp", NoneInt),
        !.spans[st.current].duration_ms = Get(msg, "duration_ms", NoneInt),
        !.spans[st.current].output = Get(Get(msg, "data", EmptyData), "output", None)]

\* event == "complete" and current_span
OnComplete(st, msg) ==
    [st EXCEPT
        !.spans[st.current].end_time = Get(msg, "timestamp", NoneInt),
        !.spans[st.current].duration_ms = Get(msg, "duration_ms", NoneInt),
        !.spans[st.current].status = "success",
        !.spans[st.current].output = Get(Get(msg, "data", EmptyData), "output", None)]

\* OnInput that prefers the input_file of the payload, as "start" does
OnInputPrefersInputFile(st, msg) ==
    [st EXCEPT !.spans[st.current].input = SpanInput(msg)]

\* event == "input" and current_span
OnInput(st, msg) ==
    [st EXCEPT !.spans[st.current].input =
        [from |-> "data", data |-> Get(msg, "data", EmptyData)]]

\* ResponsePreview that cuts a response of 200 characters too: len(resp) >= 200
ResponsePreviewCutsAtLimit(resp) ==
    IF Len(resp) >= PreviewLen THEN SubSeq(resp, 1, PreviewLen) \o Ellipsis ELSE resp

\* resp[:200] + "..." if len(resp) > 200 else resp
ResponsePreview(resp) ==
    IF Len(resp) > PreviewLen THEN SubSeq(resp, 1, PreviewLen) \o Ellipsis ELSE resp

\* event == "llm_response" and current_span
OnLlmResponse(st, msg) ==
    LET response_data == Get(msg, "data", EmptyData)
        llm_call ==
            [timestamp |-> Get(msg, "timestamp", NoneInt),
             type |-> "llm_response",
             response_preview |->
                IF "response" \in response_data.keys
                THEN [is_none |-> FALSE, text |-> ResponsePreview(response_data.response)]
                ELSE [is_none |-> TRUE, text |-> <<>>],
             response_length |->
                IF "response" \in response_data.keys
                THEN Len(response_data.response)
                ELSE IF "response_length" \in response_data.keys
                     THEN response_data.response_length
                     ELSE NoneInt]
    IN [st EXCEPT !.spans[st.current].llm_calls = Append(@, llm_call)]

\* OnToolCall that opens a span for a tool call that meets none
OnToolCallOpensSpan(st, msg) ==
    LET tool_call ==
            [timestamp |-> Get(msg, "timestamp", NoneInt),
             tool |-> Get(msg, "tool", None),
             method |-> Get(msg, "method", None),
             data |-> Get(msg, "data", EmptyData),
             span_id |-> Get(msg, "span_id", None)]
    IN IF st.current # 0
       THEN [st EXCEPT !.spans[st.current].children = Append(@, tool_call)]
       ELSE [st EXCEPT
                !.spans = Append(@, [NewSpan(msg) EXCEPT !.children = <<tool_call>>]),
                !.current = Len(st.spans) + 1]

\* the tool-call branch: tool_call = {...}; if current_span: children.append
OnToolCall(st, msg) ==
    LET tool_call ==
            [timestamp |-> Get(msg, "timestamp", NoneInt),
             tool |-> Get(msg, "tool", None),
             method |-> Get(msg, "method", None),
             data |-> Get(msg, "data", EmptyData),
             span_id |-> Get(msg, "span_id", None)]
    IN IF st.current # 0
       THEN [st EXCEPT !.spans[st.current].children = Append(@, tool_call)]
       ELSE st

\* the llm_call branch, taken with a current span
OnLlmCall(st, msg) ==
    LET llm_call ==
            [timestamp |-> Get(msg, "timestamp", NoneInt),
             type |-> "llm_call",
             model |-> Get(msg, "model", None),
             tokens |-> Get(msg, "tokens", NoTokens),
             latency_ms |-> Get(msg, "latency_ms", NoneInt)]
    IN [st EXCEPT !.spans[st.current].llm_calls = Append(@, llm_call)]

\* the agent-event branch: dispatch on msg.get("event", "")
OnAgentEvent(st, msg) ==
    LET event == Get(msg, "event", "") IN
    IF event = "start" THEN OnStart(st, msg)
    ELSE IF event = "complete" /\ st.current # 0 THEN OnComplete(st, msg)
    ELSE IF event = "input" /\ st.current # 0 THEN OnInput(st, msg)
    ELSE IF event = "llm_response" /\ st.current # 0 THEN OnLlmResponse(st, msg)
    ELSE st

\* msg.get("data", {}).get(...): AttributeError unless the data is a dict
GetOnDataRaises(msg) == Get(msg, "data", EmptyData).type # "dict"

\* "response" in response_data: TypeError when the data is None (on a str it
\* is the substring test, which the strings of the model fail)
InOnDataRaises(msg) == Get(msg, "data", EmptyData).type = "NoneType"

\* the exceptions the agent-event branch can raise on msg; none is caught
AgentEventRaises(st, msg) ==
    LET event == Get(msg, "event", "") IN
    IF event = "start" THEN GetOnDataRaises(msg)
    ELSE IF event = "complete" /\ st.current # 0 THEN GetOnDataRaises(msg)
    ELSE IF event = "input" /\ st.current # 0 THEN FALSE
    ELSE IF event = "llm_response" /\ st.current # 0 THEN InOnDataRaises(msg)
    ELSE FALSE

\* the body of "for msg in messages"; raised: an exception left the loop
HandleMessage(st, msg) ==
    LET st1 == IF Truthy(Get(msg, "trace_id", None)) /\ ~Truthy(st.trace_id)
               THEN [st EXCEPT !.trace_id = Get(msg, "trace_id", None)]
               ELSE st
    IN IF IsAgentBranch(msg)
       THEN (IF AgentEventRaises(st1, msg) THEN [st1 EXCEPT !.raised = TRUE]
             ELSE OnAgentEvent(st1, msg))
       ELSE IF IsToolBranch(msg) THEN OnToolCall(st1, msg)
       ELSE IF IsLlmBranch(msg) /\ st1.current # 0 THEN OnLlmCall(st1, msg)
       ELSE st1

RECURSIVE Reconstruct(_, _)
Reconstruct(st, msgs) ==
    IF msgs = <<>> \/ st.raised THEN st
    ELSE Reconstruct(HandleMessage(st, Head(msgs)), Tail(msgs))

\* spans = [], current_span = None, trace_id = None
InitialLoopState == [spans |-> <<>>, current |-> 0, trace_id |-> None, raised |-> FALSE]

RECURSIVE TotalDuration(_)
TotalDuration(spans) ==
    IF spans = <<>> THEN 0
    ELSE (IF TruthyInt(Head(spans).duration_ms) THEN Head(spans).duration_ms ELSE 0)
         + TotalDuration(Tail(spans))

\* TotalToolCalls that adds 1 for a span with children, not len(children)
RECURSIVE TotalToolCallsPerSpan(_)
TotalToolCallsPerSpan(spans) ==
    IF spans = <<>> THEN 0
    ELSE (IF Head(spans).children # <<>> THEN 1 ELSE 0) + TotalToolCallsPerSpan(Tail(spans))

RECURSIVE TotalToolCalls(_)
TotalToolCalls(spans) ==
    IF spans = <<>> THEN 0
    ELSE Len(Head(spans).children) + TotalToolCalls(Tail(spans))

RECURSIVE TotalLlmCalls(_)
TotalLlmCalls(spans) ==
    IF spans = <<>> THEN 0
    ELSE Len(Head(spans).llm_calls) + TotalLlmCalls(Tail(spans))

\* the summary dict {}, returned for an empty message list
EmptySummary ==
    [keys |-> {}, trace_id |-> None, total_spans |-> 0, total_duration_ms |-> 0,
     total_tool_calls |-> 0, total_llm_calls |-> 0, agents |-> <<>>]

\* a sequence without the later occurrences of its elements
RECURSIVE Distinct(_)
Distinct(seq) ==
    IF seq = <<>> THEN <<>>
    ELSE LET front == Distinct(SubSeq(seq, 1, Len(seq) - 1)) IN
         IF \E i \in 1..Len(front) : front[i] = seq[Len(seq)] THEN front
         ELSE Append(front, seq[Len(seq)])

\* Summary whose agents are listed from the last span to the first
SummaryAgentsReversed(spans, trace_id) ==
    [keys |-> {"trace_id", "total_spans", "total_duration_ms", "total_tool_calls",
               "total_llm_calls", "agents"},
     trace_id |-> trace_id,
     total_spans |-> Len(spans),
     total_duration_ms |-> TotalDuration(spans),
     total_tool_calls |-> TotalToolCalls(spans),
     total_llm_calls |-> TotalLlmCalls(spans),
     agents |-> [i \in 1..Len(spans) |-> spans[Len(spans) + 1 - i].agent]]

\* Summary whose agents are the distinct agents, in order of first appearance
SummaryDistinctAgents(spans, trace_id) ==
    [keys |-> {"trace_id", "total_spans", "total_duration_ms", "total_tool_calls",
               "total_llm_calls", "agents"},
     trace_id |-> trace_id,
     total_spans |-> Len(spans),
     total_duration_ms |-> TotalDuration(spans),
     total_tool_calls |-> TotalToolCalls(spans),
     total_llm_calls |-> TotalLlmCalls(spans),
     agents |-> Distinct([i \in 1..Len(spans) |-> spans[i].agent])]

Summary(spans, trace_id) ==
    [keys |-> {"trace_id", "total_spans", "total_duration_ms", "total_tool_calls",
               "total_llm_calls", "agents"},
     trace_id |-> trace_id,
     total_spans |-> Len(spans),
     total_duration_ms |-> TotalDuration(spans),
     total_tool_calls |-> TotalToolCalls(spans),
     total_llm_calls |-> TotalLlmCalls(spans),
     agents |-> [i \in 1..Len(spans) |-> spans[i].agent]]

\* the query before it answered, and the query that ended in an exception
NoResponse == [status |-> "none", traces |-> <<>>, summary |-> EmptySummary]
Raised == [status |-> "raised", traces |-> <<>>, summary |-> EmptySummary]

\* get_traces without the early return of lines 77-78
GetTracesWithoutEarlyReturn(msgs) ==
    LET st == Reconstruct(InitialLoopState, msgs)
    IN IF st.raised THEN Raised
       ELSE [status |-> "ok", traces |-> st.spans,
             summary |-> Summary(st.spans, st.trace_id)]

\* get_traces returning the summary {} whenever there are no spans
GetTracesEmptySummaryWithoutSpans(msgs) ==
    LET st == Reconstruct(InitialLoopState, msgs)
    IN IF st.raised THEN Raised
       ELSE IF st.spans = <<>>
            THEN [status |-> "ok", traces |-> <<>>, summary |-> EmptySummary]
            ELSE [status |-> "ok", traces |-> st.spans,
                  summary |-> Summary(st.spans, st.trace_id)]

\* get_traces, after the messages were read
GetTraces(msgs) ==
    IF msgs = <<>>
    THEN [status |-> "ok", traces |-> <<>>, summary |-> EmptySummary]
    ELSE LET st == Reconstruct(InitialLoopState, msgs)
         IN IF st.raised THEN Raised
            ELSE [status |-> "ok", traces |-> st.spans,
                  summary |-> Summary(st.spans, st.trace_id)]

(***************************************************************************)
(* The file memory/message_history.json.  Its text is the JSON array of    *)
(* the records written so far; while a writer is dumping, the text is a    *)
(* prefix of that array: "empty" (no bytes: just truncated), "partial" (a  *)
(* proper prefix that holds the whole records recs, cut anywhere after     *)
(* them) or "closed" (the whole array).                                    *)
(***************************************************************************)
Absent == [state |-> "absent", recs |-> <<>>]
Text(state, recs) == [state |-> state, recs |-> recs]

\* open(path, "r") followed by json.load(f)
JsonLoad(f) ==
    IF f.state = "absent" THEN [kind |-> "FileNotFoundError", value |-> <<>>]
    ELSE IF f.state = "closed" THEN [kind |-> "ok", value |-> f.recs]
    ELSE [kind |-> "JSONDecodeError", value |-> <<>>]

\* read_json_file with "except json.JSONDecodeError" alone
ReadJsonFileDecodeOnly(f, default) ==
    LET r == JsonLoad(f) IN
    IF r.kind = "ok" THEN [status |-> "ok", value |-> r.value]
    ELSE IF r.kind = "JSONDecodeError"
         THEN [status |-> "ok", value |-> default]
         ELSE [status |-> "raised", value |-> default]

\* read_json_file with "except FileNotFoundError" alone
ReadJsonFileMissingOnly(f, default) ==
    LET r == JsonLoad(f) IN
    IF r.kind = "ok" THEN [status |-> "ok", value |-> r.value]
    ELSE IF r.kind = "FileNotFoundError"
         THEN [status |-> "ok", value |-> default]
         ELSE [status |-> "raised", value |-> default]

\* read_json_file(path, default), called with a default that is not None
ReadJsonFile(f, default) ==
    LET r == JsonLoad(f) IN
    IF r.kind = "ok" THEN [status |-> "ok", value |-> r.value]
    ELSE IF r.kind \in {"FileNotFoundError", "JSONDecodeError"}
         THEN [status |-> "ok", value |-> default]
         ELSE [status |-> "raised", value |-> default]

\* HistoryWith with history.insert(0, entry)
HistoryWithEntryFirst(f, e) ==
    LET r == JsonLoad(f)
        old == IF f.state # "absent" /\ r.kind = "ok" THEN r.value ELSE <<>>
    IN <<e>> \o old

\* _append_to_history: history = [] ... json.load(f) ... history.append(entry)
HistoryWith(f, e) ==
    LET r == JsonLoad(f)
        old == IF f.state # "absent" /\ r.kind = "ok" THEN r.value ELSE <<>>
    IN Append(old, e)

(***************************************************************************)
(* Texts.  A text is the sequence of its characters and a line is the      *)
(* sequence of the characters between two line ends.                       *)
(***************************************************************************)
Newline == "\n"

Min(x, y) == IF x <= y THEN x ELSE y
Max(x, y) == IF x >= y THEN x ELSE y

\* the first position of character c in s, or 0
IndexOf(s, c) ==
    IF \E k \in 1..Len(s) : s[k] = c
    THEN CHOOSE k \in 1..Len(s) : s[k] = c /\ \A m \in 1..(k - 1) : s[m] # c
    ELSE 0

\* str.splitlines(): "" has no lines, a final line end opens no further line
RECURSIVE SplitLines(_)
SplitLines(text) ==
    IF text = <<>> THEN <<>>
    ELSE LET k == IndexOf(text, Newline) IN
         IF k = 0 THEN <<text>>
         ELSE <<SubSeq(text, 1, k - 1)>> \o SplitLines(SubSeq(text, k + 1, Len(text)))

\* "\n".join(lines)
RECURSIVE JoinLines(_)
JoinLines(lines) ==
    IF lines = <<>> THEN <<>>
    ELSE IF Len(lines) = 1 THEN lines[1]
    ELSE lines[1] \o <<Newline>> \o JoinLines(Tail(lines))

\* str.startswith(prefix)
StartsWith(s, prefix) ==
    Len(s) >= Len(prefix) /\ SubSeq(s, 1, Len(prefix)) = prefix

\* str.split(): the pieces between runs of blanks
RECURSIVE Split(_)
Split(s) ==
    IF s = <<>> THEN <<>>
    ELSE IF Head(s) = " " THEN Split(Tail(s))
    ELSE LET k == IndexOf(s, " ")
             stop == IF k = 0 THEN Len(s) + 1 ELSE k
         IN <<SubSeq(s, 1, stop - 1)>> \o Split(SubSeq(s, stop, Len(s)))

\* s.split(",")[0]
FirstField(s) ==
    LET k == IndexOf(s, ",") IN IF k = 0 THEN s ELSE SubSeq(s, 1, k - 1)

\* a decimal numeral is one character of the model; str(n) of a number
Numeral(n) == ToString(n)
Numerals == 0..MaxLineNo

\* int(s): the value, or ValueError when s is no signed numeral
ParseInt(s) ==
    LET digits == IF s # <<>> /\ Head(s) \in {"-", "+"} THEN Tail(s) ELSE s
        known == Len(digits) = 1 /\ \E n \in Numerals : Numeral(n) = digits[1]
        value == CHOOSE n \in Numerals : Numeral(n) = digits[1]
    IN IF ~known THEN [ok |-> FALSE, value |-> 0]
       ELSE [ok |-> TRUE, value |-> IF Head(s) = "-" THEN 0 - value ELSE value]

Abs(n) == IF n < 0 THEN 0 - n ELSE n

RECURSIVE Flatten(_)
Flatten(seqs) == IF seqs = <<>> THEN <<>> ELSE Head(seqs) \o Flatten(Tail(seqs))

(***************************************************************************)
(* difflib.unified_diff(a, b, lineterm="", n=3), as get_patch calls it:    *)
(* SequenceMatcher without junk (its autojunk heuristic needs 200 or more  *)
(* lines), the grouped opcodes and the lines of the unified format.        *)
(* Indices are those of Python: they count from 0, ranges are half open.   *)
(***************************************************************************)
ContextLines == 3

At(s, i) == s[i + 1]

\* the length of the common run of a[i:ahi] and b[j:bhi]
RECURSIVE RunLength(_, _, _, _, _, _)
RunLength(a, b, i, j, ahi, bhi) ==
    IF i < ahi /\ j < bhi /\ At(a, i) = At(b, j)
    THEN 1 + RunLength(a, b, i + 1, j + 1, ahi, bhi)
    ELSE 0

\* SequenceMatcher.find_longest_match: of the longest blocks the one that
\* starts earliest in a, and of those the one that starts earliest in b
FindLongestMatch(a, b, alo, ahi, blo, bhi) ==
    LET starts == (alo..(ahi - 1)) \X (blo..(bhi - 1))
        size(p) == RunLength(a, b, p[1], p[2], ahi, bhi)
        sizes == {size(p) : p \in starts} \cup {0}
        bestsize == CHOOSE k \in sizes : \A m \in sizes : m <= k
        best == {p \in starts : size(p) = bestsize}
        besti == CHOOSE i \in {p[1] : p \in best} : \A p \in best : i <= p[1]
        bestj == CHOOSE j \in {p[2] : p \in {q \in best : q[1] = besti}} :
                    \A p \in best : p[1] = besti => j <= p[2]
    IN IF bestsize = 0 THEN [i |-> alo, j |-> blo, size |-> 0]
       ELSE [i |-> besti, j |-> bestj, size |-> bestsize]

\* get_matching_blocks: the longest block, then the blocks left and right of it
RECURSIVE MatchingBlocksIn(_, _, _, _, _, _)
RECURSIVE BlocksAround(_, _, _, _, _, _, _)
BlocksAround(a, b, alo, ahi, blo, bhi, x) ==
    IF x.size = 0 THEN <<>>
    ELSE (IF alo < x.i /\ blo < x.j
          THEN MatchingBlocksIn(a, b, alo, x.i, blo, x.j) ELSE <<>>)
         \o <<x>>
         \o (IF x.i + x.size < ahi /\ x.j + x.size < bhi
             THEN MatchingBlocksIn(a, b, x.i + x.size, ahi, x.j + x.size, bhi)
             ELSE <<>>)

MatchingBlocksIn(a, b, alo, ahi, blo, bhi) ==
    BlocksAround(a, b, alo, ahi, blo, bhi, FindLongestMatch(a, b, alo, ahi, blo, bhi))

\* get_matching_blocks: adjacent blocks are collapsed into one
RECURSIVE CollapseFrom(_, _)
CollapseFrom(cur, blocks) ==
    LET out == IF cur.size > 0 THEN <<cur>> ELSE <<>> IN
    IF blocks = <<>> THEN out
    ELSE LET x == Head(blocks) IN
         IF cur.i + cur.size = x.i /\ cur.j + cur.size = x.j
         THEN CollapseFrom([cur EXCEPT !.size = @ + x.size], Tail(blocks))
         ELSE out \o CollapseFrom(x, Tail(blocks))

\* get_matching_blocks, with the closing block (len(a), len(b), 0)
GetMatchingBlocks(a, b) ==
    CollapseFrom([i |-> 0, j |-> 0, size |-> 0],
                 MatchingBlocksIn(a, b, 0, Len(a), 0, Len(b)))
    \o <<[i |-> Len(a), j |-> Len(b), size |-> 0]>>

Opcode(tag, i1, i2, j1, j2) == [tag |-> tag, i1 |-> i1, i2 |-> i2, j1 |-> j1, j2 |-> j2]

\* get_opcodes: the loop over the matching blocks
RECURSIVE OpcodesFrom(_, _, _)
OpcodesFrom(i, j, blocks) ==
    IF blocks = <<>> THEN <<>>
    ELSE LET x == Head(blocks)
             tag == IF i < x.i /\ j < x.j THEN "replace"
                    ELSE IF i < x.i THEN "delete"
                    ELSE IF j < x.j THEN "insert"
                    ELSE ""
         IN (IF tag # "" THEN <<Opcode(tag, i, x.i, j, x.j)>> ELSE <<>>)
            \o (IF x.size > 0
                THEN <<Opcode("equal", x.i, x.i + x.size, x.j, x.j + x.size)>>
                ELSE <<>>)
            \o OpcodesFrom(x.i + x.size, x.j + x.size, Tail(blocks))

GetOpcodes(a, b) == OpcodesFrom(0, 0, GetMatchingBlocks(a, b))

\* get_grouped_opcodes: the first and the last opcode keep n lines when equal
TrimEnds(codes0, n) ==
    LET codes == IF codes0 = <<>> THEN <<Opcode("equal", 0, 1, 0, 1)>> ELSE codes0
        first == codes[1]
        codes1 == IF first.tag = "equal"
                  THEN [codes EXCEPT ![1] =
                          Opcode("equal", Max(first.i1, first.i2 - n), first.i2,
                                 Max(first.j1, first.j2 - n), first.j2)]
                  ELSE codes
        last == codes1[Len(codes1)]
    IN IF last.tag = "equal"
       THEN [codes1 EXCEPT ![Len(codes1)] =
               Opcode("equal", last.i1, Min(last.i2, last.i1 + n),
                      last.j1, Min(last.j2, last.j1 + n))]
       ELSE codes1

\* get_grouped_opcodes: the loop; acc holds the groups yielded and the open one
RECURSIVE GroupFrom(_, _, _)
GroupFrom(acc, codes, n) ==
    IF codes = <<>> THEN acc
    ELSE LET c == Head(codes) IN
         IF c.tag = "equal" /\ c.i2 - c.i1 > n + n
         THEN GroupFrom(
                [groups |-> Append(acc.groups,
                     Append(acc.group,
                            Opcode("equal", c.i1, Min(c.i2, c.i1 + n),
                                   c.j1, Min(c.j2, c.j1 + n)))),
                 group |-> <<Opcode("equal", Max(c.i1, c.i2 - n), c.i2,
                                    Max(c.j1, c.j2 - n), c.j2)>>],
                Tail(codes), n)
         ELSE GroupFrom([acc EXCEPT !.group = Append(@, c)], Tail(codes), n)

\* get_grouped_opcodes that also yields a group of one "equal" opcode
GetGroupedOpcodesYieldsEqualGroup(a, b, n) ==
    LET acc == GroupFrom([groups |-> <<>>, group |-> <<>>], TrimEnds(GetOpcodes(a, b), n), n)
    IN IF acc.group # <<>> THEN Append(acc.groups, acc.group) ELSE acc.groups

GetGroupedOpcodes(a, b, n) ==
    LET acc == GroupFrom([groups |-> <<>>, group |-> <<>>], TrimEnds(GetOpcodes(a, b), n), n)
    IN IF acc.group # <<>> /\ ~(Len(acc.group) = 1 /\ acc.group[1].tag = "equal")
       THEN Append(acc.groups, acc.group)
       ELSE acc.groups

\* _format_range_unified(start, stop)
FormatRangeUnified(start, stop) ==
    LET length == stop - start IN
    IF length = 1 THEN <<Numeral(start + 1)>>
    ELSE <<Numeral(IF length = 0 THEN start ELSE start + 1), ",", Numeral(length)>>

\* '@@ -{} +{} @@'
HunkHeader(group) ==
    LET first == group[1]
        last == group[Len(group)]
    IN <<"@", "@", " ", "-">> \o FormatRangeUnified(first.i1, last.i2)
       \o <<" ", "+">> \o FormatRangeUnified(first.j1, last.j2)
       \o <<" ", "@", "@">>

\* the lines of one opcode: ' ' + line, '-' + line, '+' + line
OpcodeLines(a, b, c) ==
    IF c.tag = "equal"
    THEN [k \in 1..(c.i2 - c.i1) |-> <<" ">> \o At(a, c.i1 + k - 1)]
    ELSE (IF c.tag \in {"replace", "delete"}
          THEN [k \in 1..(c.i2 - c.i1) |-> <<"-">> \o At(a, c.i1 + k - 1)]
          ELSE <<>>)
         \o (IF c.tag \in {"replace", "insert"}
             THEN [k \in 1..(c.j2 - c.j1) |-> <<"+">> \o At(b, c.j1 + k - 1)]
             ELSE <<>>)

GroupLines(a, b, group) ==
    <<HunkHeader(group)>>
    \o Flatten([k \in 1..Len(group) |-> OpcodeLines(a, b, group[k])])

\* '--- ' and '+++ ': the file names and dates are empty
FromFileLine == <<"-", "-", "-", " ">>
ToFileLine == <<"+", "+", "+", " ">>

UnifiedDiff(a, b, n) ==
    LET groups == GetGroupedOpcodes(a, b, n) IN
    IF groups = <<>> THEN <<>>
    ELSE <<FromFileLine, ToFileLine>>
         \o Flatten([g \in 1..Len(groups) |-> GroupLines(a, b, groups[g])])

(***************************************************************************)
(* The result store memory/shared_memory.json, as read_json_file returns   *)
(* it ({} when the file is missing or unparseable), and the two text       *)
(* artifacts: the affected source file and the fixed file.                 *)
(***************************************************************************)
NoRca == [keys |-> {}, affected_file |-> ""]
\* RCAAgent.run: rca_data with the normalised path
RcaData == [keys |-> {"affected_file"}, affected_file |-> "app/main.py"]
\* RCAAgent.run: rca_data = {"raw_response": result, "parse_error": True}
RcaParseError == [keys |-> {"raw_response", "parse_error"}, affected_file |-> ""]

NoPatch == [keys |-> {}, original_file |-> None, fixed_file |-> "", status |-> None]
\* PatchAgent.run: patch_info
PatchInfo ==
    [keys |-> {"original_file", "fixed_file", "status"},
     original_file |-> "codebase/fast api project/app/main.py",
     fixed_file |-> "patches/fixed_main.py", status |-> "success"]
\* a patch entry that records no status
PatchInfoNoStatus ==
    [keys |-> {"original_file", "fixed_file"},
     original_file |-> "codebase/fast api project/app/main.py",
     fixed_file |-> "patches/fixed_main.py", status |-> None]

NoFix == [keys |-> {}, strategy |-> "", risk_level |-> ""]
\* FixAgent.run: fix_data, the plan the model answered with
FixData == [keys |-> {"strategy", "risk_level"}, strategy |-> "guard", risk_level |-> "low"]

\* the store with the entries the three agents write
Store(rca, fix, patch) ==
    [keys |-> (IF rca = NoRca THEN {} ELSE {"rca"})
              \cup (IF fix = NoFix THEN {} ELSE {"fix_plan"})
              \cup (IF patch = NoPatch THEN {} ELSE {"patch"}),
     rca |-> rca, fix_plan |-> fix, patch |-> patch]

Memory(rca, patch) == Store(rca, NoFix, patch)

EmptyMemory == Memory(NoRca, NoPatch)
CompleteMemory == Memory(RcaData, PatchInfo)
Memories ==
    {Memory(r, p) : r \in {NoRca, RcaData, RcaParseError},
                    p \in {NoPatch, PatchInfo, PatchInfoNoStatus}}

\* no pipeline run: the logger is called in any order
Off == [at |-> "off", loaded |-> EmptyMemory]

\* the results, events, analysis and fixes queries before any was made
NoAnalysis == [root_cause |-> "", affected_file |-> "", affected_line |-> "", error_type |-> ""]
NoFixes == [fix_description |-> "", risk_level |-> ""]
NoReply ==
    [endpoint |-> "none", status |-> "ok", store |-> EmptyMemory, events |-> <<>>,
     analysis |-> NoAnalysis, fixes |-> NoFixes, timestamp |-> NoneInt]

\* what a path names: a file with its text, a directory, or nothing
Missing == [kind |-> "missing", text |-> <<>>]
Directory == [kind |-> "dir", text |-> <<>>]
FileOf(text) == [kind |-> "file", text |-> text]

\* os.path.join(CODEBASE_DIR, rca.get("affected_file", "")): with "" the path
\* is CODEBASE_DIR + "/", the directory of the code base
OriginalPath(rca, artifact) ==
    IF Get(rca, "affected_file", "") = "" THEN Directory ELSE artifact

\* os.path.join(BASE_DIR, patch_info.get("fixed_file", "")): with "" the path
\* is BASE_DIR + "/", the directory that holds ui/dashboard_server.py
FixedPath(patch_info, artifact) ==
    IF Get(patch_info, "fixed_file", "") = "" THEN Directory ELSE artifact

NoneContent == [is_none |-> TRUE, text |-> <<>>]
Content(text) == [is_none |-> FALSE, text |-> text]

\* open(path, "r") followed by f.read()
OpenAndRead(node) ==
    IF node.kind = "file" THEN [kind |-> "ok", value |-> Content(node.text)]
    ELSE IF node.kind = "missing" THEN [kind |-> "FileNotFoundError", value |-> NoneContent]
    ELSE [kind |-> "IsADirectoryError", value |-> NoneContent]

\* read_file_content(path)
ReadFileContent(node) ==
    LET r == OpenAndRead(node) IN
    IF r.kind = "ok" THEN [status |-> "ok", value |-> r.value]
    ELSE IF r.kind = "FileNotFoundError" THEN [status |-> "ok", value |-> NoneContent]
    ELSE [status |-> "raised", value |-> NoneContent]

\* the truth value of a text or None
TruthyContent(c) == ~c.is_none /\ c.text # <<>>

(***************************************************************************)
(* get_patch: the loop over the lines of the unified diff.                 *)
(***************************************************************************)
DiffLine(line_number, type, content) ==
    [line_number |-> line_number, type |-> type, content |-> content]

NoDiff == [diff_lines |-> <<>>, additions |-> 0, deletions |-> 0, line_num |-> 0]

\* line.startswith("@@"): line_num from the hunk header
OnHunkHeader(st, line) ==
    LET parts == Split(line) IN
    IF Len(parts) >= 2
    THEN LET n == ParseInt(FirstField(parts[2])) IN
         [st EXCEPT !.line_num = IF n.ok THEN Abs(n.value) ELSE 0]
    ELSE st

\* OnDiffLine without "additions += 1"
OnDiffLineAddedUncounted(st, line) ==
    IF StartsWith(line, <<"@", "@">>) THEN OnHunkHeader(st, line)
    ELSE IF StartsWith(line, <<"-", "-", "-">>) \/ StartsWith(line, <<"+", "+", "+">>)
    THEN st
    ELSE IF StartsWith(line, <<"-">>)
    THEN [st EXCEPT
            !.diff_lines = Append(@, DiffLine(st.line_num, "removed", Tail(line))),
            !.deletions = @ + 1,
            !.line_num = @ + 1]
    ELSE IF StartsWith(line, <<"+">>)
    THEN [st EXCEPT
            !.diff_lines = Append(@, DiffLine(st.line_num, "added", Tail(line)))]
    ELSE [st EXCEPT
            !.diff_lines = Append(@, DiffLine(st.line_num, "context",
                                IF StartsWith(line, <<" ">>) THEN Tail(line) ELSE line)),
            !.line_num = @ + 1]

\* the body of "for line in differ"
OnDiffLine(st, line) ==
    IF StartsWith(line, <<"@", "@">>) THEN OnHunkHeader(st, line)
    ELSE IF StartsWith(line, <<"-", "-", "-">>) \/ StartsWith(line, <<"+", "+", "+">>)
    THEN st
    ELSE IF StartsWith(line, <<"-">>)
    THEN [st EXCEPT
            !.diff_lines = Append(@, DiffLine(st.line_num, "removed", Tail(line))),
            !.deletions = @ + 1,
            !.line_num = @ + 1]
    ELSE IF StartsWith(line, <<"+">>)
    THEN [st EXCEPT
            !.diff_lines = Append(@, DiffLine(st.line_num, "added", Tail(line))),
            !.additions = @ + 1]
    ELSE [st EXCEPT
            !.diff_lines = Append(@, DiffLine(st.line_num, "context",
                                IF StartsWith(line, <<" ">>) THEN Tail(line) ELSE line)),
            !.line_num = @ + 1]

RECURSIVE ParseDiff(_, _)
ParseDiff(st, lines) ==
    IF lines = <<>> THEN st ELSE ParseDiff(OnDiffLine(st, Head(lines)), Tail(lines))

\* get_patch, lines 189-219: the diff of the two contents
DiffOf(original_content, fixed_content) ==
    IF TruthyContent(original_content) /\ TruthyContent(fixed_content)
    THEN ParseDiff(NoDiff, UnifiedDiff(SplitLines(original_content.text),
                                       SplitLines(fixed_content.text), ContextLines))
    ELSE NoDiff

NoPatchResponse ==
    [outcome |-> "none", file_path |-> None, original_file |-> None,
     original_content |-> NoneContent, fixed_content |-> NoneContent,
     diff |-> <<>>, changes_count |-> [additions |-> 0, deletions |-> 0],
     status |-> None]
PatchRaised == [NoPatchResponse EXCEPT !.outcome = "raised"]

\* get_patch
GetPatch(mem, original_artifact, fixed_artifact) ==
    LET patch_info == Get(mem, "patch", NoPatch)
        rca == Get(mem, "rca", NoRca)
        original == ReadFileContent(OriginalPath(rca, original_artifact))
        fixed == ReadFileContent(FixedPath(patch_info, fixed_artifact))
        d == DiffOf(original.value, fixed.value)
    IN IF original.status = "raised" \/ fixed.status = "raised" THEN PatchRaised
       ELSE [outcome |-> "ok",
             file_path |-> Get(patch_info, "fixed_file", "N/A"),
             original_file |-> Get(rca, "affected_file", "N/A"),
             original_content |-> original.value,
             fixed_content |-> fixed.value,
             diff |-> d.diff_lines,
             changes_count |-> [additions |-> d.additions, deletions |-> d.deletions],
             status |-> Get(patch_info, "status", "pending")]

(***************************************************************************)
(* The logger.                                                             *)
(***************************************************************************)
Agents == {"RCA Agent", "Fix Agent"}
\* the events RCAAgent.run logs
LoggedEvents == {"start", "llm_response", "complete"}

\* uuid.uuid4().hex[:12]: an id that was not handed out before
GenerateId(n) == ToString(n + 1)

\* the payloads the agents log with each event
StartData == [EmptyData EXCEPT !.keys = {"input_file"}, !.input_file = "errors/trace_1.json"]
OutputData == [EmptyData EXCEPT !.keys = {"output"}, !.output = "done"]
ResponseData == [EmptyData EXCEPT !.keys = {"response"}, !.response = <<"h", "i">>]
PathData == [EmptyData EXCEPT !.keys = {"path"}, !.path = "errors/trace_1.json"]

PayloadOf(event) ==
    IF event = "start" THEN StartData
    ELSE IF event = "complete" THEN OutputData
    ELSE ResponseData

\* datetime.now(timezone.utc): the clock does not run backwards
ClockReads == {t \in now..MaxTime : t <= now + 1}

\* the call of _append_to_history(entry), up to history.append(entry)
BeginAppend(e) ==
    /\ entry' = e
    /\ history' = HistoryWith(file, e)
    /\ appended' = Append(appended, e)
    /\ pc' = "open"
    /\ UNCHANGED file

\* main: reset_memory(), then start_trace(), then the agents log
Booted == file # Absent /\ Truthy(current_trace_id)

\* a pipeline run is under way: its script bounds the appends and the ids
InRun == step.at # "off"

CanLog == pc = "idle" /\ Booted /\ (InRun \/ Len(appended) < MaxAppends)

StartTrace ==
    /\ pc = "idle"
    /\ file # Absent
    /\ ~Truthy(current_trace_id)
    /\ (InRun \/ nextId < MaxIds)
    /\ current_trace_id' = GenerateId(nextId)
    /\ nextId' = nextId + 1
    /\ UNCHANGED <<file, current_span_id, span_start_times, now, writerVars, readerVars, patchVars, reply>>

\* log_tool_call that writes its span_id argument as it is: "span_id": span_id
LogToolCallArgumentOnly(tool_name, method, data, span_id) ==
    /\ CanLog
    /\ \E ts \in ClockReads :
        /\ now' = ts
        /\ BeginAppend(ToolCallEntry(ts, tool_name, method, data, current_trace_id, span_id))
    /\ UNCHANGED <<current_trace_id, current_span_id, span_start_times, nextId, readerVars, patchVars, reply>>

LogToolCall(tool_name, method, data, span_id) ==
    /\ CanLog
    /\ \E ts \in ClockReads :
        /\ now' = ts
        /\ BeginAppend(ToolCallEntry(ts, tool_name, method, data, current_trace_id,
                                     IF Truthy(span_id) THEN span_id ELSE current_span_id))
    /\ UNCHANGED <<current_trace_id, current_span_id, span_start_times, nextId, readerVars, patchVars, reply>>

LogAgentStart(agent_name, data) ==
    /\ CanLog
    /\ (InRun \/ nextId < MaxIds)
    /\ \E t1 \in ClockReads :
       \E ts \in {t \in t1..MaxTime : t <= t1 + 1} :
       LET span_id == GenerateId(nextId) IN
        /\ nextId' = nextId + 1
        /\ current_span_id' = span_id
        /\ span_start_times' =
              [s \in DOMAIN span_start_times \cup {span_id} |->
                  IF s = span_id THEN t1 ELSE span_start_times[s]]
        /\ now' = ts
        /\ BeginAppend(AgentEventEntry(ts, agent_name, "start", data,
                                       current_trace_id, span_id, NoneInt))
    /\ UNCHANGED <<current_trace_id, readerVars, patchVars, reply>>

\* log_agent_message("complete") without "del _span_start_times[span_id]"
LogAgentCompleteKeepsStartTime(agent_name, data) ==
    /\ CanLog
    /\ Truthy(current_span_id)
    /\ \E t1 \in ClockReads :
       \E ts \in {t \in t1..MaxTime : t <= t1 + 1} :
       LET span_id == current_span_id
           started == span_id \in DOMAIN span_start_times
           duration_ms == IF started THEN t1 - span_start_times[span_id] ELSE NoneInt
       IN
        /\ now' = ts
        /\ BeginAppend(AgentEventEntry(ts, agent_name, "complete", data,
                                       current_trace_id, span_id, duration_ms))
    /\ UNCHANGED <<current_trace_id, current_span_id, span_start_times, nextId, readerVars, patchVars, reply>>

LogAgentComplete(agent_name, data) ==
    /\ CanLog
    /\ Truthy(current_span_id)
    /\ \E t1 \in ClockReads :
       \E ts \in {t \in t1..MaxTime : t <= t1 + 1} :
       LET span_id == current_span_id
           started == span_id \in DOMAIN span_start_times
           duration_ms == IF started THEN t1 - span_start_times[span_id] ELSE NoneInt
       IN
        /\ span_start_times' =
              IF started
              THEN [s \in DOMAIN span_start_times \ {span_id} |-> span_start_times[s]]
              ELSE span_start_times
        /\ now' = ts
        /\ BeginAppend(AgentEventEntry(ts, agent_name, "complete", data,
                                       current_trace_id, span_id, duration_ms))
    /\ UNCHANGED <<current_trace_id, current_span_id, nextId, readerVars, patchVars, reply>>

LogAgentOther(agent_name, event, data) ==
    /\ CanLog
    /\ event # "start"
    /\ ~(event = "complete" /\ Truthy(current_span_id))
    /\ \E ts \in ClockReads :
        /\ now' = ts
        /\ BeginAppend(AgentEventEntry(ts, agent_name, event, data,
                                       current_trace_id, current_span_id, NoneInt))
    /\ UNCHANGED <<current_trace_id, current_span_id, span_start_times, nextId, readerVars, patchVars, reply>>

\* log_agent_message: the three branches on event
LogAgentMessage(agent_name, event, data) ==
    IF event = "start" THEN LogAgentStart(agent_name, data)
    ELSE IF event = "complete" /\ Truthy(current_span_id)
         THEN LogAgentComplete(agent_name, data)
         ELSE LogAgentOther(agent_name, event, data)

LogLlmCall(agent_name, prompt_tokens, completion_tokens, model, latency_ms) ==
    /\ CanLog
    /\ \E ts \in ClockReads :
        /\ now' = ts
        /\ BeginAppend(LlmCallEntry(ts, agent_name, prompt_tokens, completion_tokens,
                                    model, latency_ms, current_trace_id, current_span_id))
    /\ UNCHANGED <<current_trace_id, current_span_id, span_start_times, nextId, readerVars, patchVars, reply>>

\* open(MESSAGE_HISTORY_PATH, "w"): the file is truncated
OpenWrite ==
    /\ pc = "open"
    /\ file' = Text("empty", <<>>)
    /\ pc' = "dump"
    /\ UNCHANGED <<loggerVars, entry, history, appended, readerVars, patchVars, reply, step>>

\* json.dump: the buffered text reaches the file piece by piece
Flush ==
    /\ pc = "dump"
    /\ \E k \in 0..Len(history) :
        /\ file.state = "empty" \/ k > Len(file.recs)
        /\ file' = Text("partial", SubSeq(history, 1, k))
    /\ UNCHANGED <<loggerVars, writerVars, readerVars, patchVars, reply, step>>

\* the end of "with open(..., 'w')": the rest is written and the file closed
CloseWrite ==
    /\ pc = "dump"
    /\ file' = Text("closed", history)
    /\ pc' = "idle"
    /\ UNCHANGED <<loggerVars, entry, history, appended, readerVars, patchVars, reply, step>>

\* main.reset_memory: json.dump([], f) into the truncated file
ResetMemory ==
    /\ pc = "idle"
    /\ file = Absent
    /\ history' = <<>>
    /\ appended' = <<>>
    /\ pc' = "open"
    /\ UNCHANGED <<file, loggerVars, entry, readerVars, patchVars, reply, step>>

(***************************************************************************)
(* The dashboard: GET /api/traces.                                         *)
(***************************************************************************)
\* Query whose spans and trace_id outlive the call: the loop starts from the
\* spans and the trace_id of the previous response
QueryCarriesState ==
    /\ LET r == ReadJsonFile(file, <<>>)
           st == Reconstruct([spans |-> response.traces, current |-> Len(response.traces),
                              trace_id |-> response.summary.trace_id, raised |-> FALSE],
                             r.value)
       IN
        /\ seen' = file.state
        /\ messages' = r.value
        /\ response' =
              IF r.status = "raised" \/ st.raised THEN Raised
              ELSE IF r.value = <<>>
                   THEN [status |-> "ok", traces |-> <<>>, summary |-> EmptySummary]
                   ELSE [status |-> "ok", traces |-> st.spans,
                         summary |-> Summary(st.spans, st.trace_id)]
    /\ UNCHANGED <<file, loggerVars, writerVars, patchVars, reply, step>>

Query ==
    /\ LET r == ReadJsonFile(file, <<>>) IN
        /\ seen' = file.state
        /\ messages' = r.value
        /\ response' = IF r.status = "raised" THEN Raised ELSE GetTraces(r.value)
    /\ UNCHANGED <<file, loggerVars, writerVars, patchVars, reply, step>>

(***************************************************************************)
(* The system: one writer (the pipeline process) and the dashboard.        *)
(***************************************************************************)
Init ==
    /\ file = Absent
    /\ current_trace_id = None
    /\ current_span_id = None
    /\ span_start_times = <<>>
    /\ now = 0
    /\ nextId = 0
    /\ pc = "idle"
    /\ entry = BlankEntry
    /\ history = <<>>
    /\ appended = <<>>
    /\ seen = "none"
    /\ messages = <<>>
    /\ response = NoResponse
    /\ memory = EmptyMemory
    /\ original_file = Missing
    /\ fixed_file = Missing
    /\ patch_response = NoPatchResponse
    /\ reply = NoReply
    /\ step = Off

Next ==
    \/ StartTrace /\ UNCHANGED step
    \/ \E e \in LoggedEvents :
          LogAgentMessage("RCA Agent", e, PayloadOf(e)) /\ UNCHANGED step
    \/ LogToolCall("FileReader", "read_file", PathData, None) /\ UNCHANGED step
    \/ LogLlmCall("RCA Agent", 3, 4, "gpt-4o", 5) /\ UNCHANGED step
    \/ OpenWrite
    \/ Flush
    \/ CloseWrite
    \/ ResetMemory
    \/ Query

Spec == Init /\ [][Next]_vars

(***************************************************************************)
(* get_traces over any event log: the file holds an arbitrary sequence of  *)
(* well-formed events (every producer may write it), and the logger rests. *)
(***************************************************************************)
Times == 1..MaxTime

\* FixAgent.run: the payload of its "input" event
InputData == [EmptyData EXCEPT !.keys = {"rca"}, !.rca = "rca"]

AnyEvents ==
    {AgentEventEntry(t, a, "start", StartData, "t1", "s1", NoneInt) :
        t \in Times, a \in Agents}
    \cup {AgentEventEntry(t, "RCA Agent", "complete", OutputData, "t1", "s1", d) :
            t \in Times, d \in {NoneInt, 5}}
    \cup {ToolCallEntry(t, "FileReader", "read_file", PathData, "t1", "s1") : t \in Times}
    \cup {LlmCallEntry(1, a, 3, 4, "gpt-4o", 5, "t1", "s1") : a \in {"RCA Agent", ""}}
    \cup {AgentEventEntry(1, "RCA Agent", "input", InputData, "t1", "s1", NoneInt),
          AgentEventEntry(1, "RCA Agent", "input", StartData, "t1", "s1", NoneInt),
          AgentEventEntry(1, "RCA Agent", "llm_response", ResponseData, "t1", "s1", NoneInt)}

AnyLogs == UNION {[1..n -> AnyEvents] : n \in 0..MaxLen}

InitAny ==
    /\ file \in {Text("closed", log) : log \in AnyLogs}
    /\ current_trace_id = None
    /\ current_span_id = None
    /\ span_start_times = <<>>
    /\ now = 0
    /\ nextId = 0
    /\ pc = "idle"
    /\ entry = BlankEntry
    /\ history = <<>>
    /\ appended = <<>>
    /\ seen = "none"
    /\ messages = <<>>
    /\ response = NoResponse
    /\ memory = EmptyMemory
    /\ original_file = Missing
    /\ fixed_file = Missing
    /\ patch_response = NoPatchResponse
    /\ reply = NoReply
    /\ step = Off

NextAny == Query

SpecAny == InitAny /\ [][NextAny]_vars

(***************************************************************************)
(* get_traces over a log with one malformed record: an agent event whose   *)
(* "data" is not a dict, or that lacks the keys of its kind.               *)
(***************************************************************************)
MalformedEvents ==
    {AgentEventEntry(1, "RCA Agent", "start", StrData, "t1", "s1", NoneInt),
     AgentEventEntry(1, "RCA Agent", "complete", NullData, "t1", "s1", NoneInt),
     AgentEventEntry(1, "RCA Agent", "llm_response", NullData, "t1", "s1", NoneInt),
     [BlankEntry EXCEPT !.keys = {"type", "event"},
                        !.type = "agent_event", !.event = "start"],
     [BlankEntry EXCEPT !.keys = {"type", "timestamp"},
                        !.type = "agent_event", !.timestamp = 1]}

\* log with m put in front of its i-th record
InsertAt(log, i, m) == SubSeq(log, 1, i - 1) \o <<m>> \o SubSeq(log, i, Len(log))

\* the log holds one malformed record, anywhere among well-formed ones
InitMalformed ==
    /\ \E log \in AnyLogs :
          /\ Len(log) < MaxLen
          /\ \E i \in 1..(Len(log) + 1), m \in MalformedEvents :
                file = Text("closed", InsertAt(log, i, m))
    /\ current_trace_id = None
    /\ current_span_id = None
    /\ span_start_times = <<>>
    /\ now = 0
    /\ nextId = 0
    /\ pc = "idle"
    /\ entry = BlankEntry
    /\ history = <<>>
    /\ appended = <<>>
    /\ seen = "none"
    /\ messages = <<>>
    /\ response = NoResponse
    /\ memory = EmptyMemory
    /\ original_file = Missing
    /\ fixed_file = Missing
    /\ patch_response = NoPatchResponse
    /\ reply = NoReply
    /\ step = Off

NextMalformed == Query

SpecMalformed == InitMalformed /\ [][NextMalformed]_vars

(***************************************************************************)
(* The dashboard: GET /api/patch.                                          *)
(***************************************************************************)
\* GET /api/patch
QueryPatch ==
    /\ patch_response' = GetPatch(memory, original_file, fixed_file)
    /\ UNCHANGED <<file, loggerVars, writerVars, readerVars, memory, original_file, fixed_file, reply, step>>

(***************************************************************************)
(* The dashboard: the queries that return the store, the log, the analysis *)
(* and the fix plan.                                                       *)
(***************************************************************************)
\* get_analysis: the fields taken from memory.get("rca", {})
Analysis(mem) ==
    LET rca == Get(mem, "rca", NoRca) IN
    [root_cause |-> Get(rca, "root_cause", "N/A"),
     affected_file |-> Get(rca, "affected_file", "unknown"),
     affected_line |-> Get(rca, "affected_line", "?"),
     error_type |-> Get(rca, "error_type", "Unknown")]

\* get_fixes: the fields taken from memory.get("fix_plan", {})
Fixes(mem) ==
    LET fix == Get(mem, "fix_plan", NoFix) IN
    [fix_description |-> Get(fix, "strategy", "N/A"),
     risk_level |-> Get(fix, "risk_level", "unknown")]

\* GET /api/shared-memory
GetSharedMemory ==
    /\ reply' = [NoReply EXCEPT !.endpoint = "shared-memory", !.store = memory]
    /\ UNCHANGED <<file, loggerVars, writerVars, readerVars, patchVars, step>>

\* GET /api/messages
GetMessages ==
    /\ LET r == ReadJsonFile(file, <<>>) IN
        reply' = [NoReply EXCEPT !.endpoint = "messages", !.status = r.status,
                                 !.events = r.value]
    /\ UNCHANGED <<file, loggerVars, writerVars, readerVars, patchVars, step>>

\* GET /api/analysis
GetAnalysis ==
    /\ reply' = [NoReply EXCEPT !.endpoint = "analysis", !.analysis = Analysis(memory),
                                 !.timestamp = now]
    /\ UNCHANGED <<file, loggerVars, writerVars, readerVars, patchVars, step>>

\* get_fixes that takes the plan out of the store: memory.pop("fix_plan", {})
\* followed by a dump of the store
GetFixesPopsFixPlan ==
    /\ reply' = [NoReply EXCEPT !.endpoint = "fixes", !.fixes = Fixes(memory),
                                 !.timestamp = now]
    /\ memory' = Store(memory.rca, NoFix, memory.patch)
    /\ UNCHANGED <<file, loggerVars, writerVars, readerVars,
                   original_file, fixed_file, patch_response, step>>

\* GET /api/fixes
GetFixes ==
    /\ reply' = [NoReply EXCEPT !.endpoint = "fixes", !.fixes = Fixes(memory),
                                 !.timestamp = now]
    /\ UNCHANGED <<file, loggerVars, writerVars, readerVars, patchVars, step>>

(***************************************************************************)
(* get_patch over any result store and any two artifacts.  The texts are   *)
(* short texts of plain lines, shorter texts with lines that begin with    *)
(* "--" or "++", and texts with a run of equal lines between two edits.    *)
(***************************************************************************)
PlainLines == {<<"a">>, <<"b">>}
MarkedLines == {<<"a">>, <<"-", "-", "x">>, <<"+", "+", "i">>}
PadLine == <<"c">>

LinesUpTo(alphabet, n) == UNION {[1..k -> alphabet] : k \in 0..n}

Pad(k) == [i \in 1..k |-> PadLine]

\* the runs of equal lines: none, more than n and more than 2n
Pads == {ContextLines + 1, 2 * ContextLines + 1}

PlainPairs == LinesUpTo(PlainLines, MaxLines) \X LinesUpTo(PlainLines, MaxLines)
MarkedPairs == LinesUpTo(MarkedLines, MaxMarkedLines) \X LinesUpTo(MarkedLines, MaxMarkedLines)
PaddedPairs ==
    {<<h1 \o Pad(k) \o t1, h2 \o Pad(k) \o t2>> :
        h1 \in LinesUpTo(PlainLines, 1), t1 \in LinesUpTo(PlainLines, 1),
        h2 \in LinesUpTo(PlainLines, 1), t2 \in LinesUpTo(PlainLines, 1), k \in Pads}

TextPairs ==
    {<<JoinLines(p[1]), JoinLines(p[2])>> :
        p \in PlainPairs \cup MarkedPairs \cup PaddedPairs}

\* the states of one artifact when the store varies
Artifacts ==
    {Missing, FileOf(<<>>), FileOf(<<Newline>>), FileOf(<<"a", Newline>>),
     FileOf(<<"a", Newline, "b">>)}

InitPatch ==
    /\ \/ /\ memory \in Memories
          /\ original_file \in Artifacts
          /\ fixed_file \in Artifacts
       \/ /\ memory = CompleteMemory
          /\ \E p \in TextPairs :
                /\ original_file = FileOf(p[1])
                /\ fixed_file = FileOf(p[2])
    /\ patch_response = NoPatchResponse
    /\ reply = NoReply
    /\ step = Off
    /\ file = Absent
    /\ current_trace_id = None
    /\ current_span_id = None
    /\ span_start_times = <<>>
    /\ now = 0
    /\ nextId = 0
    /\ pc = "idle"
    /\ entry = BlankEntry
    /\ history = <<>>
    /\ appended = <<>>
    /\ seen = "none"
    /\ messages = <<>>
    /\ response = NoResponse

NextPatch == QueryPatch

SpecPatch == InitPatch /\ [][NextPatch]_vars

(***************************************************************************)
(* get_traces over logs whose "llm_response" events carry responses of at  *)
(* most, exactly and more than 200 characters, a response_length alone, or *)
(* neither.                                                                *)
(***************************************************************************)
\* a response of n characters
ResponseOf(n) ==
    [i \in 1..n |-> IF i = 1 THEN "h" ELSE IF i <= PreviewLen THEN "a" ELSE "b"]

ResponseLengths == {0, 2, PreviewLen - 1, PreviewLen, PreviewLen + 1, PreviewLen + MaxLen + 1}

LengthData == [EmptyData EXCEPT !.keys = {"response_length"}, !.response_length = 7]

PreviewEvents ==
    {AgentEventEntry(1, "RCA Agent", "llm_response",
                     [EmptyData EXCEPT !.keys = {"response"}, !.response = ResponseOf(n)],
                     "t1", "s1", NoneInt) : n \in ResponseLengths}
    \cup {AgentEventEntry(0, "RCA Agent", "start", StartData, "t1", "s1", NoneInt),
          AgentEventEntry(2, "RCA Agent", "complete", OutputData, "t1", "s1", 5),
          AgentEventEntry(1, "RCA Agent", "llm_response", LengthData, "t1", "s1", NoneInt),
          AgentEventEntry(1, "RCA Agent", "llm_response", EmptyData, "t1", "s1", NoneInt)}

InitPreview ==
    /\ \E n \in 0..MaxLen : \E log \in [1..n -> PreviewEvents] : file = Text("closed", log)
    /\ current_trace_id = None
    /\ current_span_id = None
    /\ span_start_times = <<>>
    /\ now = 0
    /\ nextId = 0
    /\ pc = "idle"
    /\ entry = BlankEntry
    /\ history = <<>>
    /\ appended = <<>>
    /\ seen = "none"
    /\ messages = <<>>
    /\ response = NoResponse
    /\ memory = EmptyMemory
    /\ original_file = Missing
    /\ fixed_file = Missing
    /\ patch_response = NoPatchResponse
    /\ reply = NoReply
    /\ step = Off

NextPreview == Query

SpecPreview == InitPreview /\ [][NextPreview]_vars

(***************************************************************************)
(* get_traces over logs that hold the events of several traces: the file   *)
(* was not reset between two runs, or two producers share it.              *)
(***************************************************************************)
TraceIds == {"t1", "t2"}

TraceEvents ==
    {AgentEventEntry(1, "RCA Agent", "start", StartData, t, "s1", NoneInt) :
        t \in TraceIds}
    \cup {AgentEventEntry(2, "RCA Agent", "complete", OutputData, t, "s1", 1) : t \in TraceIds}
    \cup {ToolCallEntry(1, "FileReader", "read_file", PathData, t, "s1") : t \in TraceIds}

InitTraces ==
    /\ \E n \in 0..MaxLen : \E log \in [1..n -> TraceEvents] : file = Text("closed", log)
    /\ current_trace_id = None
    /\ current_span_id = None
    /\ span_start_times = <<>>
    /\ now = 0
    /\ nextId = 0
    /\ pc = "idle"
    /\ entry = BlankEntry
    /\ history = <<>>
    /\ appended = <<>>
    /\ seen = "none"
    /\ messages = <<>>
    /\ response = NoResponse
    /\ memory = EmptyMemory
    /\ original_file = Missing
    /\ fixed_file = Missing
    /\ patch_response = NoPatchResponse
    /\ reply = NoReply
    /\ step = Off

NextTraces == Query

SpecTraces == InitTraces /\ [][NextTraces]_vars

(***************************************************************************)
(* A pipeline run: main calls reset_memory and start_trace, then the run   *)
(* methods of the three agents.  step.at is the statement the run has      *)
(* reached and step.loaded the store the agent at work has loaded.  Every  *)
(* statement waits for the append before it to finish (one thread).  The   *)
(* model answers every prompt; the payloads of the events are cut down to  *)
(* the keys get_traces reads.                                              *)
(***************************************************************************)
Reached(l) == step.at = l
Goto(l) == step' = [step EXCEPT !.at = l]

\* a statement that logs nothing and writes no file
Skip == UNCHANGED <<file, loggerVars, writerVars, readerVars, patchVars, reply>>

\* tools.file_reader.read_file(path), path naming one of nodes
ReadFile(call, open, result, nodes, done, failed) ==
    \/ Reached(call) /\ LogToolCall("FileReader", "read_file", PathData, None) /\ Goto(open)
    \/ /\ Reached(open)
       /\ pc = "idle"
       /\ \E node \in nodes :
             IF OpenAndRead(node).kind = "ok" THEN Goto(result) ELSE Goto(failed)
       /\ Skip
    \/ Reached(result) /\ LogToolCall("FileReader", "read_file_result", PathData, None) /\ Goto(done)

\* an agent that starts from an empty store instead of loading the file
LoadStoreEmpty(at, next) ==
    /\ Reached(at)
    /\ pc = "idle"
    /\ step' = [at |-> next, loaded |-> EmptyMemory]
    /\ Skip

\* with open(SHARED_MEMORY) as f: memory = json.load(f)
LoadStore(at, next) ==
    /\ Reached(at)
    /\ pc = "idle"
    /\ step' = [at |-> next, loaded |-> memory]
    /\ Skip

\* memory[...] = ...; with open(SHARED_MEMORY, "w") as f: json.dump(memory, f)
\* the file is truncated first, and holds the store when the dump is over
SaveStore(at, dump, next, store) ==
    \/ /\ Reached(at)
       /\ pc = "idle"
       /\ step' = [at |-> dump, loaded |-> store]
       /\ memory' = EmptyMemory
       /\ UNCHANGED <<file, loggerVars, writerVars, readerVars, original_file, fixed_file,
                      patch_response, reply>>
    \/ /\ Reached(dump)
       /\ memory' = step.loaded
       /\ Goto(next)
       /\ UNCHANGED <<file, loggerVars, writerVars, readerVars, original_file, fixed_file,
                      patch_response, reply>>

\* main without reset_memory()
MainWithoutReset ==
    \/ Reached("main") /\ pc = "idle" /\ file # Absent /\ Goto("start_trace") /\ Skip
    \/ Reached("start_trace") /\ StartTrace /\ Goto("rca_start")

\* main: reset_memory(), start_trace()
Main ==
    \/ /\ Reached("main")
       /\ pc = "idle"
       /\ memory' = EmptyMemory
       /\ history' = <<>>
       /\ appended' = <<>>
       /\ pc' = "open"
       /\ Goto("start_trace")
       /\ UNCHANGED <<file, loggerVars, entry, readerVars, original_file, fixed_file,
                      patch_response, reply>>
    \/ Reached("start_trace") /\ StartTrace /\ Goto("rca_start")

\* what the path of errors/trace_1.json can name
ErrorFiles == {Missing, FileOf(<<"e">>)}

RCAAgentRun ==
    \/ Reached("rca_start") /\ LogAgentMessage("RCA Agent", "start", StartData) /\ Goto("rca_read")
    \/ ReadFile("rca_read", "rca_open", "rca_result", ErrorFiles, "rca_llm", "crashed")
    \/ Reached("rca_llm") /\ LogAgentMessage("RCA Agent", "llm_response", ResponseData)
                     /\ Goto("rca_load")
    \/ LoadStore("rca_load", "rca_store")
    \/ \E rca_data \in {RcaData, RcaParseError} :
          SaveStore("rca_store", "rca_dump", "rca_complete",
                    Store(rca_data, step.loaded.fix_plan, step.loaded.patch))
    \/ Reached("rca_complete") /\ LogAgentMessage("RCA Agent", "complete", OutputData)
                          /\ Goto("fix_start")

FixAgentRun ==
    \/ Reached("fix_start") /\ LogAgentMessage("Fix Agent", "start", EmptyData) /\ Goto("fix_load")
    \/ LoadStore("fix_load", "fix_input")
    \/ Reached("fix_input") /\ LogAgentMessage("Fix Agent", "input", InputData) /\ Goto("fix_read")
    \/ ReadFile("fix_read", "fix_open", "fix_result",
                {OriginalPath(Get(step.loaded, "rca", NoRca), original_file)},
                "fix_llm", "fix_llm")
    \/ Reached("fix_llm") /\ LogAgentMessage("Fix Agent", "llm_response", ResponseData)
                     /\ Goto("fix_store")
    \/ SaveStore("fix_store", "fix_dump", "fix_complete",
                 Store(step.loaded.rca, FixData, step.loaded.patch))
    \/ Reached("fix_complete") /\ LogAgentMessage("Fix Agent", "complete", OutputData)
                          /\ Goto("patch_start")

PatchAgentRun ==
    \/ Reached("patch_start") /\ LogAgentMessage("Patch Agent", "start", EmptyData)
                         /\ Goto("patch_load")
    \/ LoadStore("patch_load", "patch_input")
    \/ Reached("patch_input") /\ LogAgentMessage("Patch Agent", "input", InputData)
                         /\ Goto("patch_read")
    \/ ReadFile("patch_read", "patch_open", "patch_result",
                {OriginalPath(Get(step.loaded, "rca", NoRca), original_file)},
                "patch_llm", "done")
    \/ Reached("patch_llm") /\ LogAgentMessage("Patch Agent", "llm_response", LengthData)
                       /\ Goto("patch_write")
    \/ Reached("patch_write") /\ LogToolCall("FileWriter", "write_file", PathData, None)
                         /\ Goto("patch_written")
    \/ /\ Reached("patch_written")
       /\ pc = "idle"
       /\ fixed_file' = FileOf(<<"a", Newline>>)
       /\ Goto("patch_write_result")
       /\ UNCHANGED <<file, loggerVars, writerVars, readerVars, memory, original_file,
                      patch_response, reply>>
    \/ Reached("patch_write_result")
          /\ LogToolCall("FileWriter", "write_file_result", PathData, None)
          /\ Goto("patch_store")
    \/ SaveStore("patch_store", "patch_dump", "patch_complete",
                 Store(step.loaded.rca, step.loaded.fix_plan, PatchInfo))
    \/ Reached("patch_complete") /\ LogAgentMessage("Patch Agent", "complete", OutputData)
                            /\ Goto("done")

\* the log and the store an earlier run left behind
EarlierLog == <<AgentEventEntry(0, "RCA Agent", "start", StartData, "t0", "s0", NoneInt)>>
EarlierStore == Store(RcaData, FixData, PatchInfo)

InitPipeline ==
    /\ file \in {Absent, Text("closed", EarlierLog)}
    /\ memory \in {EmptyMemory, EarlierStore}
    /\ original_file \in {Missing, FileOf(<<"a", Newline, "b">>)}
    /\ fixed_file = Missing
    /\ step = [at |-> "main", loaded |-> EmptyMemory]
    /\ current_trace_id = None
    /\ current_span_id = None
    /\ span_start_times = <<>>
    /\ now = MaxTime
    /\ nextId = 0
    /\ pc = "idle"
    /\ entry = BlankEntry
    /\ history = <<>>
    /\ appended = <<>>
    /\ seen = "none"
    /\ messages = <<>>
    /\ response = NoResponse
    /\ patch_response = NoPatchResponse
    /\ reply = NoReply

NextPipeline ==
    \/ Main
    \/ RCAAgentRun
    \/ FixAgentRun
    \/ PatchAgentRun
    \/ OpenWrite
    \/ Flush
    \/ CloseWrite
    \/ Query

SpecPipeline == InitPipeline /\ [][NextPipeline]_vars

(***************************************************************************)
(* The six queries of the dashboard, in any order, over a log and a store  *)
(* that no pipeline is writing.                                            *)
(***************************************************************************)
Stores ==
    {Store(r, f, p) : r \in {NoRca, RcaData, RcaParseError}, f \in {NoFix, FixData},
                      p \in {NoPatch, PatchInfo}}

QueriedLogs ==
    {<<>>,
     <<AgentEventEntry(0, "RCA Agent", "start", StartData, "t1", "s1", NoneInt)>>,
     <<AgentEventEntry(0, "RCA Agent", "start", StartData, "t1", "s1", NoneInt),
       ToolCallEntry(1, "FileReader", "read_file", PathData, "t1", "s1"),
       AgentEventEntry(1, "RCA Agent", "complete", OutputData, "t1", "s1", 5)>>}

QueriedFiles ==
    {Absent, Text("empty", <<>>)} \cup {Text("closed", log) : log \in QueriedLogs}

QueriedArtifacts == {Missing, FileOf(<<"a", Newline>>), FileOf(<<"b", Newline>>)}

InitQueries ==
    /\ file \in QueriedFiles
    /\ memory \in Stores
    /\ original_file \in QueriedArtifacts
    /\ fixed_file \in QueriedArtifacts
    /\ patch_response = NoPatchResponse
    /\ reply = NoReply
    /\ step = Off
    /\ current_trace_id = None
    /\ current_span_id = None
    /\ span_start_times = <<>>
    /\ now = 0
    /\ nextId = 0
    /\ pc = "idle"
    /\ entry = BlankEntry
    /\ history = <<>>
    /\ appended = <<>>
    /\ seen = "none"
    /\ messages = <<>>
    /\ response = NoResponse

NextQueries ==
    \/ Query
    \/ QueryPatch
    \/ GetSharedMemory
    \/ GetMessages
    \/ GetAnalysis
    \/ GetFixes

SpecQueries == InitQueries /\ [][NextQueries]_vars

(***************************************************************************)
(* Reading a log by hand: where its "start" events are, and the stretch of *)
(* the log that follows each of them up to the next "start".               *)
(***************************************************************************)
IsStartEvent(m) == IsAgentBranch(m) /\ Get(m, "event", "") = "start"
IsCompleteEvent(m) == IsAgentBranch(m) /\ Get(m, "event", "") = "complete"
IsInputEvent(m) == IsAgentBranch(m) /\ Get(m, "event", "") = "input"
IsLlmResponseEvent(m) == IsAgentBranch(m) /\ Get(m, "event", "") = "llm_response"

Positions(msgs, P(_)) == {i \in 1..Len(msgs) : P(msgs[i])}

\* the k-th smallest element of a set of numbers
RECURSIVE Nth(_, _)
Nth(S, k) ==
    LET m == CHOOSE x \in S : \A y \in S : x <= y
    IN IF k = 1 THEN m ELSE Nth(S \ {m}, k - 1)

StartAt(msgs, k) == Nth(Positions(msgs, IsStartEvent), k)
NumStarts(msgs) == Cardinality(Positions(msgs, IsStartEvent))

\* the last position of the stretch that the k-th "start" opens
StretchEnd(msgs, k) ==
    IF k < NumStarts(msgs) THEN StartAt(msgs, k + 1) - 1 ELSE Len(msgs)

\* the positions after the k-th "start" and before the next one
Stretch(msgs, k) == (StartAt(msgs, k) + 1)..StretchEnd(msgs, k)

\* the positions of the k-th stretch up to its first "complete"
OpenStretch(msgs, k) ==
    {i \in Stretch(msgs, k) :
        \A j \in Stretch(msgs, k) : IsCompleteEvent(msgs[j]) => i <= j}

Answered == response.status = "ok"
Spans == response.traces

Last(seq) == seq[Len(seq)]
Front(seq) == SubSeq(seq, 1, Len(seq) - 1)

ToolCallsIn(msgs, S) == Cardinality({i \in S : IsToolBranch(msgs[i])})

\* the events that reach an llm_calls.append of get_traces
LlmEntriesIn(msgs, S) ==
    Cardinality({i \in S : IsLlmResponseEvent(msgs[i]) \/ IsLlmBranch(msgs[i])})

\* the input of the k-th span when the "input" events at the positions S count
InputFrom(msgs, k, S) ==
    LET ins == {i \in S : IsInputEvent(msgs[i])} IN
    IF ins = {} THEN SpanInput(msgs[StartAt(msgs, k)])
    ELSE [from |-> "data",
          data |-> Get(msgs[CHOOSE i \in ins : \A j \in ins : j <= i], "data", EmptyData)]

OneSpanPerStart == Answered /\ Len(Spans) = NumStarts(messages)

(***************************************************************************)
(* C1                                                                      *)
(***************************************************************************)
\* C1: the spans of the response are the "start" events of the log, one span
\* per "start" event and in the order of these events in the log.
C1_SpansFollowStartOrder ==
    Answered =>
        /\ Len(Spans) = NumStarts(messages)
        /\ \A k \in 1..Len(Spans) :
            LET m == messages[StartAt(messages, k)] IN
            /\ Spans[k].agent = Get(m, "agent", "Unknown")
            /\ Spans[k].start_time = Get(m, "timestamp", NoneInt)
            /\ Spans[k].span_id = Get(m, "span_id", "")

\* two spans of different agents, the later-stamped one opened first
C1_Witness ==
    /\ Answered
    /\ Len(Spans) = 2
    /\ Spans[1].agent # Spans[2].agent
    /\ Spans[1].start_time > Spans[2].start_time

(***************************************************************************)
(* C2                                                                      *)
(***************************************************************************)
\* C2 as claimed: a "complete" clears the current span, so a span holds only
\* the tool calls, LLM entries and "input" that arrive before its "complete".
C2_NothingAfterComplete ==
    OneSpanPerStart =>
        \A k \in 1..Len(Spans) :
            /\ Len(Spans[k].children) = ToolCallsIn(messages, OpenStretch(messages, k))
            /\ Len(Spans[k].llm_calls) = LlmEntriesIn(messages, OpenStretch(messages, k))
            /\ Spans[k].input = InputFrom(messages, k, OpenStretch(messages, k))

\* C2 amended: a "complete" leaves the span current, so a span holds every
\* tool call, LLM entry and "input" that arrives before the next "start",
\* those after its "complete" included.
C2_SpanStaysCurrentAfterComplete ==
    OneSpanPerStart =>
        \A k \in 1..Len(Spans) :
            /\ Len(Spans[k].children) = ToolCallsIn(messages, Stretch(messages, k))
            /\ Len(Spans[k].llm_calls) = LlmEntriesIn(messages, Stretch(messages, k))
            /\ Spans[k].input = InputFrom(messages, k, Stretch(messages, k))

\* a tool call that follows the "complete" of its span
C2_Witness ==
    /\ OneSpanPerStart
    /\ \E k \in 1..Len(Spans) :
        /\ Spans[k].status = "success"
        /\ \E i \in Stretch(messages, k) \ OpenStretch(messages, k) :
            IsToolBranch(messages[i])

(***************************************************************************)
(* C3                                                                      *)
(***************************************************************************)
IsLlmCallRecord(m) == Get(m, "type", None) = "llm_call"
IsLlmCallChild(c) == c.type = "llm_call"

\* C3 as claimed: each llm_call record logged while a span is open (a span
\* that is still running at the end of the log) is one llm_call entry of that
\* span with the record's model, tokens and latency_ms, and total_llm_calls
\* counts it.
C3_LlmCallAdded ==
    OneSpanPerStart =>
        \A k \in 1..Len(Spans) :
            Spans[k].status = "running" =>
                LET recs == {i \in Stretch(messages, k) : IsLlmCallRecord(messages[i])}
                    calls == SelectSeq(Spans[k].llm_calls, IsLlmCallChild)
                IN /\ Len(calls) = Cardinality(recs)
                   /\ response.summary.total_llm_calls >= Cardinality(recs)
                   /\ \A n \in 1..Len(calls) :
                        /\ calls[n].model = messages[Nth(recs, n)].model
                        /\ calls[n].tokens = messages[Nth(recs, n)].tokens
                        /\ calls[n].latency_ms = messages[Nth(recs, n)].latency_ms

(***************************************************************************)
(* C4                                                                      *)
(***************************************************************************)
\* the log ends with the "complete" of a span that was open until then
EndsWithCompleteOfOpenSpan ==
    /\ OneSpanPerStart
    /\ Len(Spans) >= 1
    /\ IsCompleteEvent(Last(messages))
    /\ \A i \in Stretch(messages, Len(Spans)) :
        IsCompleteEvent(messages[i]) => i = Len(messages)

\* C4 as claimed: the duration is the event's duration_ms when it has one and
\* otherwise the difference of the "complete" timestamp and the start_time.
C4_DurationComputedWhenAbsent ==
    EndsWithCompleteOfOpenSpan =>
        LET c == Last(messages)
            span == Spans[Len(Spans)]
        IN /\ span.duration_ms =
                IF "duration_ms" \in c.keys THEN c.duration_ms
                ELSE c.timestamp - span.start_time
           /\ span.status = "success"
           /\ span.output = Get(Get(c, "data", EmptyData), "output", None)

\* C4 amended: the duration is the event's duration_ms when it has one and
\* None otherwise; end_time is the event's timestamp, the status success and
\* the output the payload's output.
C4_DurationTakenFromEvent ==
    EndsWithCompleteOfOpenSpan =>
        LET c == Last(messages)
            span == Spans[Len(Spans)]
        IN /\ span.duration_ms = (IF "duration_ms" \in c.keys THEN c.duration_ms ELSE NoneInt)
           /\ span.end_time = c.timestamp
           /\ span.status = "success"
           /\ span.output = Get(Get(c, "data", EmptyData), "output", None)

\* a span closed, later than it started, by a "complete" without duration_ms
C4_Witness ==
    /\ EndsWithCompleteOfOpenSpan
    /\ "duration_ms" \notin Last(messages).keys
    /\ Spans[Len(Spans)].end_time > Spans[Len(Spans)].start_time
    /\ Spans[Len(Spans)].duration_ms = NoneInt

(***************************************************************************)
(* C5                                                                      *)
(***************************************************************************)
\* the tool calls of the log that have a "start" before them
ToolCallsAfterAStart(msgs) ==
    {i \in 1..Len(msgs) :
        IsToolBranch(msgs[i]) /\ \E j \in 1..(i - 1) : IsStartEvent(msgs[j])}

\* C5: a tool call that precedes every "start" makes no span and is nobody's
\* child: the spans are those of the "start" events, the tool calls counted
\* are those that follow a "start", and a log without "start" gives no span
\* and no tool call.
C5_ToolCallBeforeStartDropped ==
    Answered /\ messages # <<>> =>
        /\ Len(Spans) = NumStarts(messages)
        /\ response.summary.total_tool_calls = Cardinality(ToolCallsAfterAStart(messages))
        /\ NumStarts(messages) = 0 =>
            Spans = <<>> /\ response.summary.total_tool_calls = 0

\* a log that begins with a tool call and opens a span afterwards
C5_Witness ==
    /\ Answered
    /\ Len(messages) >= 2
    /\ IsToolBranch(messages[1])
    /\ Len(Spans) = 1
    /\ Spans[1].children = <<>>

(***************************************************************************)
(* C6                                                                      *)
(***************************************************************************)
\* the log ends with a "complete" that meets no open span
EndsWithCompleteOfNoOpenSpan ==
    /\ OneSpanPerStart
    /\ messages # <<>>
    /\ IsCompleteEvent(Last(messages))
    /\ Len(Spans) >= 1 =>
        \E i \in Stretch(messages, Len(Spans)) :
            IsCompleteEvent(messages[i]) /\ i < Len(messages)

\* C6 as claimed: such a "complete" changes no span.
C6_LateCompleteDropped ==
    EndsWithCompleteOfNoOpenSpan => Spans = GetTraces(Front(messages)).traces

\* C6 amended: before any "start" such a "complete" is dropped; after the
\* latest span was completed it is applied to that span again (end_time,
\* duration_ms and output are those of this event) and changes no other span.
C6_LateCompleteReappliedToLatestSpan ==
    EndsWithCompleteOfNoOpenSpan =>
        LET c == Last(messages)
            before == GetTraces(Front(messages)).traces
            n == Len(Spans)
        IN /\ Len(before) = n
           /\ \A k \in 1..(n - 1) : Spans[k] = before[k]
           /\ n >= 1 =>
                Spans[n] = [before[n] EXCEPT
                    !.end_time = c.timestamp,
                    !.duration_ms = (IF "duration_ms" \in c.keys THEN c.duration_ms
                                     ELSE NoneInt),
                    !.status = "success",
                    !.output = Get(Get(c, "data", EmptyData), "output", None)]

\* a second "complete" that moved the end of a span already completed
C6_Witness ==
    /\ EndsWithCompleteOfNoOpenSpan
    /\ Len(Spans) >= 1
    /\ Spans[Len(Spans)].end_time #
            GetTraces(Front(messages)).traces[Len(Spans)].end_time

(***************************************************************************)
(* C7                                                                      *)
(***************************************************************************)
\* C7: a span is running exactly when it has no end_time.
C7_RunningIffNoEndTime ==
    Answered =>
        \A k \in 1..Len(Spans) :
            Spans[k].status = "running" <=> Spans[k].end_time = NoneInt

\* a completed span followed by a running one
C7_Witness ==
    /\ Answered
    /\ \E k \in 1..Len(Spans) : Spans[k].status = "success"
    /\ \E k \in 1..Len(Spans) : Spans[k].status = "running"

(***************************************************************************)
(* C8                                                                      *)
(***************************************************************************)
EndNotBeforeStart ==
    \A k \in 1..Len(Spans) :
        Spans[k].start_time # NoneInt /\ Spans[k].end_time # NoneInt
            => Spans[k].end_time >= Spans[k].start_time

\* the timestamps do not decrease along the log
InTemporalOrder(msgs) ==
    \A i, j \in 1..Len(msgs) : i < j => msgs[i].timestamp <= msgs[j].timestamp

\* C8 as claimed: for every log, a span with start_time and end_time ends no
\* earlier than it starts.
C8_EndNotBeforeStartAnyLog == Answered => EndNotBeforeStart

\* C8 amended: for every log whose timestamps do not decrease, a span with
\* start_time and end_time ends no earlier than it starts.
C8_EndNotBeforeStartOrderedLog ==
    Answered /\ InTemporalOrder(messages) => EndNotBeforeStart

\* an ordered log with a span that ends after it started
C8_Witness ==
    /\ Answered
    /\ InTemporalOrder(messages)
    /\ \E k \in 1..Len(Spans) :
        Spans[k].end_time # NoneInt /\ Spans[k].end_time > Spans[k].start_time

(***************************************************************************)
(* C9                                                                      *)
(***************************************************************************)
\* C9: whenever the writer is not inside an append, reading the log gives the
\* entries appended since the reset, all of them and in the order of the
\* appends.
C9_ReadReturnsAppendsInOrder ==
    pc = "idle" => ReadJsonFile(file, <<>>).value = appended

\* two different entries were appended and the second append is finished
C9_Witness ==
    /\ pc = "idle"
    /\ file.state = "closed"
    /\ Len(appended) >= 2
    /\ appended[1] # appended[2]

(***************************************************************************)
(* C10                                                                     *)
(***************************************************************************)
\* C10: no trace query raises, and a query whose read met the file between
\* its truncation and the end of the write answers with the empty list of
\* messages: no part of the text being written is used.
C10_ReadDuringWriteIsEmptyAndSafe ==
    /\ response.status # "raised"
    /\ seen \in {"empty", "partial"} =>
        /\ response.status = "ok"
        /\ messages = <<>>
        /\ response.traces = <<>>

\* a query answered while the writer is dumping a log of two entries
C10_Witness ==
    /\ pc = "dump"
    /\ Len(history) >= 2
    /\ file.state = "partial"
    /\ file.recs # <<>>
    /\ seen = "partial"
    /\ Answered

RemoveAt(log, i) == SubSeq(log, 1, i - 1) \o SubSeq(log, i + 1, Len(log))

IsMalformed(m) == m \in MalformedEvents

\* C12 as claimed: a query over a log with one malformed record raises no
\* error and answers with the spans, children included, that the log without
\* this record gives.
C12_MalformedRecordSkipped ==
    seen = "closed" =>
        \A i \in Positions(messages, IsMalformed) :
            /\ response.status = "ok"
            /\ response.traces = GetTraces(RemoveAt(messages, i)).traces

(***************************************************************************)
(* Reading a diff response by hand.                                        *)
(***************************************************************************)
PatchAnswered == patch_response.outcome = "ok"
PatchAsked == patch_response.outcome # "none"

\* the two artifacts are files; their lines
BothFiles == original_file.kind = "file" /\ fixed_file.kind = "file"
OriginalLines == SplitLines(original_file.text)
FixedLines == SplitLines(fixed_file.text)

Additions == patch_response.changes_count.additions
Deletions == patch_response.changes_count.deletions
DiffLines == patch_response.diff

EmptyDiff == DiffLines = <<>> /\ Additions = 0 /\ Deletions = 0

(***************************************************************************)
(* C13                                                                     *)
(***************************************************************************)
\* C13 as claimed: whatever the result store and the two artifacts are, the
\* diff query answers with a response and does not raise.
C13_DiffQueryNeverRaises == PatchAsked => PatchAnswered

(***************************************************************************)
(* C14                                                                     *)
(***************************************************************************)
\* C14 as claimed: when the original or the fixed artifact does not exist, the
\* response has an empty diff, no additions, no deletions and the status
\* "pending", whatever status the patch entry of the store records.
C14_MissingArtifactGivesPending ==
    (PatchAsked /\ (original_file = Missing \/ fixed_file = Missing)) =>
        /\ PatchAnswered
        /\ EmptyDiff
        /\ patch_response.status = "pending"

(***************************************************************************)
(* C15                                                                     *)
(***************************************************************************)
AllOfType(lines, type) ==
    /\ Len(DiffLines) = Len(lines)
    /\ \A k \in 1..Len(lines) :
          DiffLines[k].type = type /\ DiffLines[k].content = lines[k]

\* C15 as claimed: an original of zero lines against a fixed text with lines
\* gives one Added line per fixed line, that many additions and no deletions;
\* a fixed text of zero lines gives the same with Removed and deletions.
C15_EmptySideGivesAllAddedOrRemoved ==
    (PatchAsked /\ BothFiles /\ memory = CompleteMemory) =>
        /\ (OriginalLines = <<>> /\ FixedLines # <<>>) =>
              /\ PatchAnswered
              /\ AllOfType(FixedLines, "added")
              /\ Additions = Len(FixedLines) /\ Deletions = 0
        /\ (FixedLines = <<>> /\ OriginalLines # <<>>) =>
              /\ PatchAnswered
              /\ AllOfType(OriginalLines, "removed")
              /\ Deletions = Len(OriginalLines) /\ Additions = 0

(***************************************************************************)
(* C16                                                                     *)
(***************************************************************************)
\* C16 as claimed: every Context and every Removed line of the diff carries
\* the number of a line of the original, and its content is that line.
C16_NumbersFollowOriginal ==
    (PatchAnswered /\ BothFiles) =>
        \A k \in 1..Len(DiffLines) :
            DiffLines[k].type \in {"context", "removed"} =>
                /\ DiffLines[k].line_number \in 1..Len(OriginalLines)
                /\ DiffLines[k].content = OriginalLines[DiffLines[k].line_number]

(***************************************************************************)
(* C17                                                                     *)
(***************************************************************************)
\* C17 as claimed: for two non-empty texts, whatever their lines begin with,
\* the lines of the original less the deletions plus the additions are as
\* many as the lines of the fixed text.
C17_CountsBalance ==
    (PatchAnswered /\ BothFiles /\ original_file.text # <<>> /\ fixed_file.text # <<>>) =>
        Len(OriginalLines) - Deletions + Additions = Len(FixedLines)

(***************************************************************************)
(* C18                                                                     *)
(***************************************************************************)
\* C18: the diff of a text against the same text has no lines, no additions
\* and no deletions.
C18_DiffOfTextWithItselfIsEmpty ==
    (PatchAnswered /\ BothFiles /\ original_file.text = fixed_file.text) => EmptyDiff

\* a text of two or more lines was diffed against itself
C18_Witness ==
    /\ PatchAnswered
    /\ BothFiles
    /\ original_file.text = fixed_file.text
    /\ Len(OriginalLines) >= 2
    /\ patch_response.original_content = Content(original_file.text)

(***************************************************************************)
(* C19                                                                     *)
(***************************************************************************)
\* the response of the query with the two artifacts exchanged
Swapped == GetPatch(memory, fixed_file, original_file)

\* C19 as claimed: the deletions of the diff of A against B are the additions
\* of the diff of B against A, and its additions are the deletions of that.
C19_SwapExchangesCounts ==
    (PatchAnswered /\ BothFiles /\ memory = CompleteMemory) =>
        /\ Deletions = Swapped.changes_count.additions
        /\ Additions = Swapped.changes_count.deletions

(***************************************************************************)
(* C20                                                                     *)
(***************************************************************************)
\* the length of a longest common subsequence of a and b
LCS(a, b) ==
    LET L[i \in 0..Len(a), j \in 0..Len(b)] ==
            IF i = 0 \/ j = 0 THEN 0
            ELSE IF a[i] = b[j] THEN L[i - 1, j - 1] + 1
            ELSE Max(L[i - 1, j], L[i, j - 1])
    IN L[Len(a), Len(b)]

RECURSIVE SumOfSizes(_)
SumOfSizes(blocks) ==
    IF blocks = <<>> THEN 0 ELSE Head(blocks).size + SumOfSizes(Tail(blocks))

\* the lines that the matching blocks of difflib pair up
Matched(a, b) == SumOfSizes(GetMatchingBlocks(a, b))

\* the lines that the diff removes and that begin "--", and the lines that
\* it adds and that begin "++": get_patch takes them for "---" and "+++"
MarkedChanges(a, b) ==
    LET codes == GetOpcodes(a, b)
        removed(c) == IF c.tag \in {"replace", "delete"}
                      THEN {k \in c.i1..(c.i2 - 1) : StartsWith(At(a, k), <<"-", "-">>)}
                      ELSE {}
        added(c) == IF c.tag \in {"replace", "insert"}
                    THEN {k \in c.j1..(c.j2 - 1) : StartsWith(At(b, k), <<"+", "+">>)}
                    ELSE {}
    IN Cardinality(UNION {removed(codes[n]) : n \in 1..Len(codes)})
       + Cardinality(UNION {added(codes[n]) : n \in 1..Len(codes)})

\* C20 as claimed: for any two texts the additions and deletions are those of
\* a minimal edit script: the lines of both texts less twice their LCS.
C20_EditScriptIsMinimal ==
    (PatchAnswered /\ BothFiles /\ memory = CompleteMemory) =>
        Additions + Deletions =
            Len(OriginalLines) + Len(FixedLines) - 2 * LCS(OriginalLines, FixedLines)

\* C20 amended: the edit script is that of the matching blocks of difflib
\* (the longest common block, then the same to its left and to its right),
\* which pair up no more lines than an LCS has and can pair up fewer.  For two
\* non-empty texts the additions and deletions, together with the removed
\* lines that begin "--" and the added lines that begin "++", which get_patch
\* leaves out, are the lines of both texts less twice the lines paired up; an
\* empty text gives no additions and no deletions.
C20_EditScriptOfMatchingBlocks ==
    (PatchAnswered /\ BothFiles) =>
        IF original_file.text # <<>> /\ fixed_file.text # <<>>
        THEN /\ Additions + Deletions + MarkedChanges(OriginalLines, FixedLines) =
                    Len(OriginalLines) + Len(FixedLines)
                    - 2 * Matched(OriginalLines, FixedLines)
             /\ Matched(OriginalLines, FixedLines) <= LCS(OriginalLines, FixedLines)
        ELSE Additions = 0 /\ Deletions = 0

\* a diff of two texts without "--" and "++" lines that pairs up fewer lines
\* than their LCS has, and so has more additions and deletions than needed
C20_Witness ==
    /\ PatchAnswered
    /\ BothFiles
    /\ MarkedChanges(OriginalLines, FixedLines) = 0
    /\ Matched(OriginalLines, FixedLines) < LCS(OriginalLines, FixedLines)
    /\ Additions + Deletions >
            Len(OriginalLines) + Len(FixedLines) - 2 * LCS(OriginalLines, FixedLines)

(***************************************************************************)
(* C21                                                                     *)
(***************************************************************************)
\* the sum of f[k] over k in 1..n
RECURSIVE SumTo(_, _)
SumTo(f, n) == IF n = 0 THEN 0 ELSE f[n] + SumTo(f, n - 1)

\* C21: the counters of the summary are sums over the spans of the response:
\* total_duration_ms adds the duration_ms of the spans that have one,
\* total_tool_calls adds the numbers of their children and total_llm_calls
\* the numbers of their llm_calls.
C21_CountersReduceSpans ==
    (Answered /\ messages # <<>>) =>
        /\ response.summary.total_duration_ms =
              SumTo([k \in 1..Len(Spans) |->
                        IF Spans[k].duration_ms = NoneInt THEN 0 ELSE Spans[k].duration_ms],
                    Len(Spans))
        /\ response.summary.total_tool_calls =
              SumTo([k \in 1..Len(Spans) |-> Len(Spans[k].children)], Len(Spans))
        /\ response.summary.total_llm_calls =
              SumTo([k \in 1..Len(Spans) |-> Len(Spans[k].llm_calls)], Len(Spans))

\* a span with two tool calls and a duration
C21_Witness ==
    /\ Answered
    /\ \E k \in 1..Len(Spans) : Len(Spans[k].children) = 2
    /\ response.summary.total_tool_calls = 2
    /\ Len(Spans) = 1

(***************************************************************************)
(* C22                                                                     *)
(***************************************************************************)
\* C22: the agents of the summary have one entry per span, in the order of
\* the spans: as many entries as spans, the i-th entry being the agent of the
\* i-th span, whether or not an earlier span has the same agent.
C22_AgentsFollowSpans ==
    (Answered /\ messages # <<>>) =>
        /\ Len(response.summary.agents) = Len(Spans)
        /\ \A i \in 1..Len(Spans) : response.summary.agents[i] = Spans[i].agent

\* three spans, the first and the third of one agent, the second of another
C22_Witness ==
    /\ Answered
    /\ Len(Spans) = 3
    /\ Spans[1].agent = Spans[3].agent
    /\ Spans[1].agent # Spans[2].agent
    /\ Len(response.summary.agents) = 3

(***************************************************************************)
(* C23                                                                     *)
(***************************************************************************)
\* the number of entries of a sequence that equal x
Occurrences(seq, x) == Cardinality({i \in 1..Len(seq) : seq[i] = x})

\* the "start" events of an agent
StartsOf(msgs, a) ==
    Cardinality({i \in Positions(msgs, IsStartEvent) : Get(msgs[i], "agent", "Unknown") = a})

\* C23 as stated: no agent name occurs twice in the agents of the summary.
C23_AgentsAreDistinct ==
    Answered =>
        \A i, j \in 1..Len(response.summary.agents) :
            response.summary.agents[i] = response.summary.agents[j] => i = j

\* C23, amended: an agent name occurs in the agents of the summary once for
\* every "start" event of that agent in the log, so twice when two spans
\* share the agent; the names stand in the order of their "start" events.
C23_AgentOncePerStart ==
    (Answered /\ messages # <<>>) =>
        /\ \A a \in Agents \cup {"Unknown"} :
              Occurrences(response.summary.agents, a) = StartsOf(messages, a)
        /\ \A k \in 1..NumStarts(messages) :
              k \in DOMAIN response.summary.agents
              /\ response.summary.agents[k] =
                    Get(messages[StartAt(messages, k)], "agent", "Unknown")

\* two spans of the same agent, the name twice in the summary
C23_Witness ==
    /\ Answered
    /\ Len(Spans) = 2
    /\ Spans[1].agent = Spans[2].agent
    /\ Occurrences(response.summary.agents, Spans[1].agent) = 2

(***************************************************************************)
(* C24                                                                     *)
(***************************************************************************)
\* C24: for a log that is the empty list, the response has no spans and its
\* summary is the empty object: none of the summary keys is present.
C24_EmptyLogGivesEmptySummary ==
    (seen = "closed" /\ messages = <<>> /\ response.status # "none") =>
        /\ Answered
        /\ Spans = <<>>
        /\ response.summary.keys = {}

\* a query of the file holding the empty list
C24_Witness ==
    /\ seen = "closed"
    /\ file = Text("closed", <<>>)
    /\ messages = <<>>
    /\ Answered
    /\ response.summary.keys = {}

(***************************************************************************)
(* C25                                                                     *)
(***************************************************************************)
\* the summary with the three counters at 0 and no agent
AllZero(summary) ==
    /\ {"total_duration_ms", "total_tool_calls", "total_llm_calls", "agents"}
          \subseteq summary.keys
    /\ summary.total_duration_ms = 0
    /\ summary.total_tool_calls = 0
    /\ summary.total_llm_calls = 0
    /\ summary.agents = <<>>

\* C25 as stated: whenever the response has no spans, the empty log
\* included, the summary has the three counters at 0 and an empty agent list.
C25_NoSpansGivesAllZeroSummary ==
    (Answered /\ Spans = <<>>) => AllZero(response.summary)

\* C25, amended: a log that is not empty and has no "start" event gives no
\* spans and the summary with total_spans 0, the three counters at 0 and an
\* empty agent list; the empty log gives the summary {} that has no counter.
C25_NoStartGivesAllZeroSummary ==
    (Answered /\ NumStarts(messages) = 0) =>
        /\ Spans = <<>>
        /\ messages # <<>> =>
              /\ AllZero(response.summary)
              /\ "total_spans" \in response.summary.keys
              /\ response.summary.total_spans = 0
        /\ messages = <<>> => response.summary.keys = {}

\* a log of tool calls, completes and responses only
C25_Witness ==
    /\ Answered
    /\ Len(messages) = MaxLen
    /\ NumStarts(messages) = 0
    /\ \E i \in 1..Len(messages) : IsToolBranch(messages[i])
    /\ \E i \in 1..Len(messages) : IsCompleteEvent(messages[i])
    /\ AllZero(response.summary)

(***************************************************************************)
(* C26                                                                     *)
(***************************************************************************)
\* the file reads now as it read at the last query
LogAsLastRead ==
    /\ response.status # "none"
    /\ seen = file.state
    /\ ReadJsonFile(file, <<>>).value = messages

\* C26: a trace query of a log that reads as it read at the previous query
\* returns the spans and the summary the previous query returned: nothing of
\* the previous query (its spans, its current span, its trace id) shows in
\* the answer.
C26_RepeatedQueryAnswersTheSame ==
    [][(LogAsLastRead /\ file' = file) => (response' = response /\ messages' = messages)]_vars

\* a query answered with two spans, one of them closed, on a log that still
\* reads the same
C26_Witness ==
    /\ LogAsLastRead
    /\ Answered
    /\ Len(Spans) = 2
    /\ Spans[1].status = "success"
    /\ response.summary.trace_id # None

(***************************************************************************)
(* C27                                                                     *)
(***************************************************************************)
\* C27: no query writes: every step of the trace, diff, results, events,
\* analysis and fixes queries leaves the file of the log, the store and the
\* two artifacts as they were.
C27_QueriesWriteNothing ==
    [][/\ file' = file
       /\ memory' = memory
       /\ original_file' = original_file
       /\ fixed_file' = fixed_file]_vars

\* the trace, diff and fixes queries have answered over a log with a closed
\* span and a store with a plan and a patch
C27_Witness ==
    /\ Answered
    /\ Len(Spans) = 1
    /\ patch_response.outcome # "none"
    /\ reply.endpoint = "fixes"
    /\ reply.fixes.fix_description = "guard"
    /\ "patch" \in memory.keys
    /\ "fix_plan" \in memory.keys

(***************************************************************************)
(* C28                                                                     *)
(***************************************************************************)
RunningSpans == {k \in 1..Len(Spans) : Spans[k].status = "running"}

\* C28 as stated: the response never has two spans with status "running".
C28_AtMostOneRunningSpan == Answered => Cardinality(RunningSpans) <= 1

\* C28, amended: a span of the response is running exactly when no
\* "complete" event stands between its "start" and the next "start" (or the
\* end of the log); a "start" that arrives while a span is open leaves that
\* span running, so the response can have several running spans, and only
\* the span opened last is still current.
C28_RunningIffNotCompletedBeforeNextStart ==
    OneSpanPerStart =>
        \A k \in 1..Len(Spans) :
            Spans[k].status = "running"
                <=> ~\E i \in Stretch(messages, k) : IsCompleteEvent(messages[i])

\* a "start" arrived while a span was open: both spans are running, and the
\* tool call that follows is a child of the second
C28_Witness ==
    /\ OneSpanPerStart
    /\ Len(Spans) = 2
    /\ RunningSpans = {1, 2}
    /\ Spans[1].children = <<>>
    /\ Len(Spans[2].children) = 1

(***************************************************************************)
(* C29                                                                     *)
(***************************************************************************)
InputsIn(msgs, k) == {i \in Stretch(msgs, k) : IsInputEvent(msgs[i])}
LastInputIn(msgs, k) == msgs[CHOOSE i \in InputsIn(msgs, k) : \A j \in InputsIn(msgs, k) : j <= i]

\* C29 as stated: the input of a span that received "input" events is the
\* input_file of the last one's payload when the payload has one, and the
\* whole payload otherwise.
C29_InputEventPrefersInputFile ==
    OneSpanPerStart =>
        \A k \in 1..Len(Spans) :
            InputsIn(messages, k) # {} => Spans[k].input = SpanInput(LastInputIn(messages, k))

\* C29, amended: the input of a span that received "input" events is the
\* whole payload of the last one, with or without an input_file; an "input"
\* event that no "start" precedes is dropped, and a span that received none
\* keeps the input its "start" event gave it.
C29_InputEventSetsWholePayload ==
    OneSpanPerStart =>
        \A k \in 1..Len(Spans) :
            /\ InputsIn(messages, k) # {} =>
                  Spans[k].input =
                      [from |-> "data", data |-> Get(LastInputIn(messages, k), "data", EmptyData)]
            /\ InputsIn(messages, k) = {} =>
                  Spans[k].input = SpanInput(messages[StartAt(messages, k)])

\* an "input" event whose payload has an input_file, dropped before the
\* "start" and taken whole after it
C29_Witness ==
    /\ OneSpanPerStart
    /\ Len(messages) = 3
    /\ IsInputEvent(messages[1])
    /\ IsStartEvent(messages[2])
    /\ IsInputEvent(messages[3])
    /\ "input_file" \in messages[3].data.keys
    /\ Spans[1].input.from = "data"

(***************************************************************************)
(* C30                                                                     *)
(***************************************************************************)
\* the "llm_response" events among the positions S, in log order
ResponsesIn(msgs, S) ==
    LET P == {i \in S : IsLlmResponseEvent(msgs[i])} IN
    [j \in 1..Cardinality(P) |-> msgs[Nth(P, j)]]

\* the first 200 characters of a text followed by "...", or the whole text
\* when it has at most 200 characters
Truncated(text) ==
    IF Len(text) <= PreviewLen THEN text
    ELSE [i \in 1..(PreviewLen + 3) |-> IF i <= PreviewLen THEN text[i] ELSE "."]

\* the invocation an "llm_response" event gives
InvocationOf(m) ==
    LET data == Get(m, "data", EmptyData) IN
    [timestamp |-> Get(m, "timestamp", NoneInt),
     type |-> "llm_response",
     response_preview |->
        IF "response" \in data.keys
        THEN [is_none |-> FALSE, text |-> Truncated(data.response)]
        ELSE [is_none |-> TRUE, text |-> <<>>],
     response_length |->
        IF "response" \in data.keys THEN Len(data.response)
        ELSE Get(data, "response_length", NoneInt)]

\* the span's invocations are those of the "llm_response" events at the
\* positions S(k), one for each and in their order
InvocationsFollow(S(_)) ==
    \A k \in 1..Len(Spans) :
        LET events == ResponsesIn(messages, S(k)) IN
        /\ Len(Spans[k].llm_calls) = Len(events)
        /\ \A j \in 1..Len(events) : Spans[k].llm_calls[j] = InvocationOf(events[j])

OpenStretchOf(k) == OpenStretch(messages, k)
StretchOf(k) == Stretch(messages, k)

\* C30 as stated: a span has one invocation for every "llm_response" event
\* that arrived while it was open (after its "start" and up to its
\* "complete"), with the preview and the length of the response, and an
\* "llm_response" event that meets no open span appends nothing.
C30_ResponseAppendedToOpenSpanOnly ==
    OneSpanPerStart => InvocationsFollow(OpenStretchOf)

\* C30, amended: a span has one invocation for every "llm_response" event
\* between its "start" and the next "start", those after its "complete"
\* included: the preview is the whole response when it has at most 200
\* characters and its first 200 characters followed by "..." otherwise, the
\* length is the length of the whole response; without a response the
\* preview is None and the length is the payload's response_length or None.
\* An "llm_response" event that no "start" precedes appends nothing.
C30_ResponseAppendedToCurrentSpan ==
    OneSpanPerStart =>
        /\ InvocationsFollow(StretchOf)
        /\ response.summary.total_llm_calls =
              Cardinality({i \in 1..Len(messages) :
                  IsLlmResponseEvent(messages[i])
                  /\ \E j \in 1..(i - 1) : IsStartEvent(messages[j])})

\* a span with a response of exactly 200 characters kept whole and a longer
\* one cut to 200 characters and the marker
C30_Witness ==
    /\ OneSpanPerStart
    /\ Len(Spans) = 1
    /\ Len(Spans[1].llm_calls) = 2
    /\ Spans[1].llm_calls[1].response_length = PreviewLen
    /\ Len(Spans[1].llm_calls[1].response_preview.text) = PreviewLen
    /\ Spans[1].llm_calls[2].response_length > PreviewLen
    /\ Len(Spans[1].llm_calls[2].response_preview.text) = PreviewLen + 3

(***************************************************************************)
(* C31                                                                     *)
(***************************************************************************)
\* C31: every span of the response was opened by a "start" event whose
\* trace_id is the trace_id of the summary, whatever trace ids the events of
\* the log carry.
C31_SpansShareTheTraceId ==
    OneSpanPerStart =>
        \A k \in 1..Len(Spans) :
            Get(messages[StartAt(messages, k)], "trace_id", None) = response.summary.trace_id

(***************************************************************************)
(* C32                                                                     *)
(***************************************************************************)
\* C32: in the response to a query of a log the logger wrote, every tool
\* call among the children of a span carries the span_id of that span.
C32_ChildrenCarryTheSpanId ==
    Answered =>
        \A k \in 1..Len(Spans) :
            \A c \in 1..Len(Spans[k].children) :
                Spans[k].children[c].span_id = Spans[k].span_id

\* two spans of the logger, the tool call a child of the second
C32_Witness ==
    /\ Answered
    /\ Len(Spans) = 2
    /\ Spans[1].span_id # Spans[2].span_id
    /\ Len(Spans[2].children) = 1
    /\ Truthy(Spans[2].children[1].span_id)
    /\ Spans[2].children[1].span_id = Spans[2].span_id

(***************************************************************************)
(* C33                                                                     *)
(***************************************************************************)
\* every "start" entry of a log has a "complete" entry of its span_id after it
EveryStartCompleted(log) ==
    \A i \in 1..Len(log) :
        IsStartEvent(log[i]) =>
            \E j \in (i + 1)..Len(log) :
                IsCompleteEvent(log[j]) /\ log[j].span_id = log[i].span_id

\* main has returned and the last append is over
RunIsOver == Reached("done") /\ pc = "idle" /\ file.state = "closed"

\* C33: when main has run to its end, every "start" entry of the log has a
\* "complete" entry of the same span_id after it, and a trace query made
\* then returns no running span.
C33_RunLeavesNoOpenSpan ==
    RunIsOver =>
        /\ EveryStartCompleted(file.recs)
        /\ (Answered /\ messages = file.recs) =>
              \A k \in 1..Len(Spans) : Spans[k].status # "running"


(***************************************************************************)
(* C34                                                                     *)
(***************************************************************************)
\* the step is a read of the log by the dashboard: the writer does not move
ReadStep == UNCHANGED <<file, loggerVars, writerVars>>

\* the log as it was before the append that is under way
LogBeforeAppend == SubSeq(history, 1, Len(history) - 1)

\* C34 as claimed: a read of the event log taken while one append is under
\* way (its entry is added to the list read from the file, and the file is
\* being rewritten) returns the log before the append or the log after it;
\* when the log already held events, it never returns an empty or shorter
\* sequence.
C34_ConcurrentReadIsLinearizable ==
    [][(ReadStep /\ pc \in {"open", "dump"} /\ Len(history) >= 2)
          => messages' \in {LogBeforeAppend, history}]_vars


(***************************************************************************)
(* C35                                                                     *)
(***************************************************************************)
\* the position of the latest "start" entry before position j, or 0
LastStartBefore(log, j) ==
    LET S == {i \in 1..(j - 1) : IsStartEvent(log[i])}
    IN IF S = {} THEN 0 ELSE CHOOSE i \in S : \A h \in S : h <= i

\* C35: every "complete" entry that log_agent_message wrote has the span_id
\* of the latest "start" entry before it, and it has a duration_ms exactly
\* when no other "complete" entry stands between that "start" and it; a
\* "complete" entry that no "start" precedes has the span_id null and no
\* duration_ms; and the current span id is the id of the latest "start"
\* written (null before the first), whatever other events were logged since.
C35_CompleteClosesLatestStart ==
    /\ \A j \in 1..Len(appended) :
          IsCompleteEvent(appended[j]) =>
              LET s == LastStartBefore(appended, j) IN
              IF s = 0
              THEN /\ appended[j].span_id = None
                   /\ "duration_ms" \notin appended[j].keys
              ELSE /\ appended[j].span_id = appended[s].span_id
                   /\ ("duration_ms" \in appended[j].keys
                         <=> \A h \in (s + 1)..(j - 1) : ~IsCompleteEvent(appended[h]))
    /\ LET s == LastStartBefore(appended, Len(appended) + 1) IN
       current_span_id = IF s = 0 THEN None ELSE appended[s].span_id

\* a span is started, completed, and completed once more
C35_Witness ==
    /\ Len(appended) = 3
    /\ IsStartEvent(appended[1])
    /\ IsCompleteEvent(appended[2]) /\ "duration_ms" \in appended[2].keys
    /\ IsCompleteEvent(appended[3]) /\ "duration_ms" \notin appended[3].keys
    /\ appended[3].span_id = appended[1].span_id
    /\ current_span_id = appended[1].span_id


(***************************************************************************)
(* C36                                                                     *)
(***************************************************************************)
\* the key an agent writes, by the statement that assigns it
OwnKey(l) ==
    IF l = "rca_store" THEN "rca" ELSE IF l = "fix_store" THEN "fix_plan" ELSE "patch"

StageOrder(store) ==
    /\ "patch" \in store.keys => "fix_plan" \in store.keys
    /\ "fix_plan" \in store.keys => "rca" \in store.keys

\* C36: in a pipeline run, after reset_memory, the store that an agent dumps
\* is the store as it stood plus the agent's own key (rca, then fix_plan,
\* then patch), with every earlier entry unchanged, and the dump writes just
\* that store; so at every point of the run a store with patch has fix_plan,
\* and a store with fix_plan has rca.
C36_StoreGrowsInStageOrder ==
    [][/\ StageOrder(memory) /\ StageOrder(memory')
       /\ (step.at \in {"rca_store", "fix_store", "patch_store"} /\ step'.at # step.at) =>
             /\ OwnKey(step.at) \notin memory.keys
             /\ step'.loaded.keys = memory.keys \cup {OwnKey(step.at)}
             /\ \A k \in memory.keys : step'.loaded[k] = memory[k]
       /\ (step.at \in {"rca_dump", "fix_dump", "patch_dump"} /\ step'.at # step.at) =>
             memory' = step.loaded
       /\ (InRun /\ step.at # "main") =>
             \A k \in memory.keys \cap memory'.keys : memory'[k] = memory[k]]_vars

\* the run is over and each of the three agents has written its entry
C36_Witness ==
    /\ Reached("done")
    /\ memory.keys = {"rca", "fix_plan", "patch"}
    /\ memory.rca = RcaData /\ memory.fix_plan = FixData /\ memory.patch = PatchInfo


(***************************************************************************)
(* C37                                                                     *)
(***************************************************************************)
\* the query read events that this run logged: the first entries appended
ReadFromThisRun ==
    /\ messages # <<>>
    /\ Len(messages) <= Len(appended)
    /\ messages = SubSeq(appended, 1, Len(messages))

\* C37: in a pipeline run, once start_trace has returned, every event in the
\* log file carries the trace id it returned, which is not null; and a trace
\* query that read events of the run reports that id as summary.trace_id.
C37_OneTraceIdPerRun ==
    (InRun /\ step.at \notin {"main", "start_trace"}) =>
        /\ Truthy(current_trace_id)
        /\ \A i \in 1..Len(file.recs) :
              Get(file.recs[i], "trace_id", None) = current_trace_id
        /\ \A i \in 1..Len(appended) :
              Get(appended[i], "trace_id", None) = current_trace_id
        /\ (Answered /\ ReadFromThisRun) => response.summary.trace_id = current_trace_id

\* the run is over and the query has read its whole log, whose trace id is
\* not the one of the run before
C37_Witness ==
    /\ RunIsOver
    /\ Answered /\ ReadFromThisRun /\ messages = file.recs
    /\ Len(messages) > Len(EarlierLog) + 5
    /\ response.summary.trace_id = current_trace_id
    /\ current_trace_id # EarlierLog[1].trace_id


(***************************************************************************)
(* C38                                                                     *)
(***************************************************************************)
\* the ids of the "start" entries written that no "complete" entry follows
StartedNotCompleted ==
    {appended[i].span_id : i \in {h \in 1..Len(appended) :
        /\ IsStartEvent(appended[h])
        /\ \A j \in (h + 1)..Len(appended) :
              ~(IsCompleteEvent(appended[j]) /\ appended[j].span_id = appended[h].span_id)}}

\* C38 as claimed: _span_start_times holds only ids of spans that were
\* started and are not yet completed, and it never holds more than one id: a
\* "start" that follows an uncompleted "start" leaves no entry of the earlier
\* span behind.
C38_AtMostOneStartTime ==
    /\ DOMAIN span_start_times \subseteq StartedNotCompleted
    /\ Cardinality(DOMAIN span_start_times) <= 1

====
